---- MODULE Spec2Model ----
(***************************************************************************)
(* Server provisioning webhook: the webhook endpoint (app/api.py), the     *)
(* event handlers (app/utils.py) and the cluster service layer             *)
(* (app/services/kubernetes copy.py: UserDataSecretManager,                *)
(* BareMetalHostManager, ProvisioningMonitor).                             *)
(*                                                                         *)
(* Requests are handled one at a time (handle_webhook is a coroutine that  *)
(* never yields after reading the body); every monitor is a thread of its  *)
(* own and interleaves with requests, with the other monitors and with the *)
(* cluster changing the hosts' status.                                     *)
(***************************************************************************)
EXTENDS Integers, Sequences, FiniteSets, TLC

VARIABLES
    secrets,     \* cluster: secret name -> the Secret object, Null when absent
    hostSpec,    \* cluster: host name -> the image/userData part of the host's spec
    hostState,   \* cluster: host name -> status.provisioning.state, or Absent
    template,    \* the Python objects of CLOUD_CONFIG_TEMPLATE and of the running
                 \* _generate_cloud_config calls, by address
    monitors,    \* the monitor threads started so far, in order of their start
    req          \* the request being answered: None when the server is idle

vars == <<secrets, hostSpec, hostState, template, monitors, req>>

----------------------------------------------------------------------------
(* Bounds of the model *)

\* at most this many monitor threads are started in one run
MaxMonitors == 2
\* at most this many undelivered notifications are pending on one watch
MaxQueue == 1
\* at most this many monitor threads run where the cluster changes under them
MaxObserved == 1

----------------------------------------------------------------------------
(* Python values *)

None == "<None>"

\* truthiness of an Optional[str]: None and "" are falsy
Truthy(v) == v # None /\ v # ""

\* str(n) of the integers the model uses
Str(n) == <<"1", "2", "3", "4", "5", "6", "7", "8", "9">>[n]

\* "x or y" on Optional[str]
OrElse(v, d) == IF Truthy(v) THEN v ELSE d

\* an optional object: JSON null or one object; an absent or a present resource
Null == <<>>
Obj(r) == <<r>>

----------------------------------------------------------------------------
(* Configuration: app/config.py with no environment variable set *)

K8S_NAMESPACE == "default"
PROVISION_IMAGE == "default-provision-image-url"
PROVISION_CHECKSUM == "default-provision-checksum-url"
PROVISION_CHECKSUM_TYPE == "sha256"
PROVISIONING_TIMEOUT == 600
\* the keys "ubuntu", "debian", "rocky", "fedora", as code points
OS_SLUGS ==
    {<<117, 98, 117, 110, 116, 117>>, <<100, 101, 98, 105, 97, 110>>,
     <<114, 111, 99, 107, 121>>, <<102, 101, 100, 111, 114, 97>>}
OS_IMAGES == [s \in OS_SLUGS |-> PROVISION_IMAGE]
OS_CHECKSUMS == [s \in OS_SLUGS |-> PROVISION_CHECKSUM]

EVENT_START == "EVENT_START"
EVENT_END == "EVENT_END"
EVENT_DELETED == "EVENT_DELETED"

----------------------------------------------------------------------------
(* The cluster *)

Hosts == {"bmh1", "bmh2"}
Absent == "<absent>"

\* the result of one cluster API call: served, refused with an ApiException
\* of a status other than 409, or broken by a fault that is no ApiException
Served == "ok"
Conflict == "409"
ApiError == "ApiException"
OtherError == "Exception"

\* what one operation can meet: every call served, or one call failing
\* (a failed call ends the operation, so no second call can fail in it)
NoFault == [at |-> "none", how |-> Served]
Faults ==
    {NoFault} \cup
    [at : {"create_secret", "patch_secret", "patch_host"}, how : {ApiError, OtherError}]

FaultAt(f, api) == IF f.at = api THEN f.how ELSE Served

\* the host's spec as this program sees it: the two fields it writes
NoSpec == [image |-> Null, userData |-> Null]

\* a JSON merge patch of spec.image and spec.userData: null removes the field
MergePatch(spec, patch) ==
    [image |-> patch.spec.image, userData |-> patch.spec.userData]

\* a patch of a secret replaces its type and data and keeps its identity
PatchSecret(old, body) ==
    [name |-> old.name, namespace |-> old.namespace,
     type |-> body.type, data |-> body.data]

Call(api, name, body, outcome) ==
    [api |-> api, name |-> name, body |-> body, outcome |-> outcome]

----------------------------------------------------------------------------
(* UserDataSecretManager *)

\* the template: the administrator, with a password and no key list, and
\* the user for external access, with an empty key list and no password
CLOUD_CONFIG_TEMPLATE ==
    [ssh_pwauth |-> TRUE, groups |-> <<"admingroup", "cloud-users">>,
     users |->
        <<[name |-> "restart.admin", groups |-> "admingroup",
           lock_passwd |-> FALSE, has_passwd |-> TRUE,
           sudo |-> "ALL=(ALL) NOPASSWD:ALL",
           has_keys |-> FALSE, ssh_authorized_keys |-> <<>>],
          [name |-> "prognose", groups |-> "cloud-users",
           lock_passwd |-> TRUE, has_passwd |-> FALSE,
           sudo |-> "ALL=(ALL) NOPASSWD:ALL",
           has_keys |-> TRUE, ssh_authorized_keys |-> <<>>]>>]

\* the index of the first user named "prognose", 0 when there is none
FirstPrognose(users) ==
    LET hits == {i \in DOMAIN users : users[i].name = "prognose"}
    IN IF hits = {} THEN 0 ELSE CHOOSE i \in hits : \A j \in hits : i <= j

\* Python objects. The heap maps the address of an object to the object: the
\* dict of a cloud config holds the addresses of its two lists, a list of
\* users the addresses of the user dicts, the dict of a user the address of
\* its key list (None where the dict has no such key); a frame holds the
\* locals of one running call of _generate_cloud_config
TemplateAddr == "T"
ConfigAddr(g) == g \o ".cloud_config"
UsersAddr(o) == o \o ".users"
UserAddr(o, i) == o \o ".users." \o Str(i)
KeysAddr(o) == o \o ".ssh_authorized_keys"
FrameAddr(g) == g \o ".frame"
CallAddr(g) == g \o ".create_or_update"

\* the objects the module creates when it is imported: CLOUD_CONFIG_TEMPLATE,
\* its two lists, the dicts of its users (each with the address of its key
\* list) and the (empty) key list
TemplateObjects ==
    LET t == CLOUD_CONFIG_TEMPLATE
        o == TemplateAddr
    IN (o :> [ssh_pwauth |-> t.ssh_pwauth, groups |-> o \o ".groups",
              users |-> UsersAddr(o)])
       @@ (o \o ".groups" :> t.groups)
       @@ (UsersAddr(o) :> [i \in DOMAIN t.users |-> UserAddr(o, i)])
       @@ [a \in {UserAddr(o, i) : i \in DOMAIN t.users} |->
              LET i == CHOOSE j \in DOMAIN t.users : UserAddr(o, j) = a
              IN [t.users[i] EXCEPT !.ssh_authorized_keys =
                                       IF t.users[i].has_keys THEN KeysAddr(a)
                                       ELSE None]]
       @@ [a \in {KeysAddr(UserAddr(o, i)) :
                     i \in {j \in DOMAIN t.users : t.users[j].has_keys}} |->
              LET i == CHOOSE j \in DOMAIN t.users : KeysAddr(UserAddr(o, j)) = a
              IN t.users[i].ssh_authorized_keys]

\* the value of a cloud config, as yaml.dump reads it: every list and every
\* user through its reference
ConfigValue(heap, a) ==
    [ssh_pwauth |-> heap[a].ssh_pwauth,
     groups |-> heap[heap[a].groups],
     users |-> [i \in DOMAIN heap[heap[a].users] |->
                  LET user == heap[heap[heap[a].users][i]]
                  IN [user EXCEPT !.ssh_authorized_keys =
                                     IF user.has_keys THEN heap[@] ELSE <<>>]]]

\* the call _generate_cloud_config(ssh_key) of thread g begins
EnterGenerate(heap, g, bmh_name, ssh_key) ==
    (FrameAddr(g) :> [pc |-> "copy", bmh_name |-> bmh_name, ssh_key |-> ssh_key,
                      i |-> 1, result |-> Null])
    @@ heap

\* a comprehension without user.copy(): the new list holds the user dicts of
\* the template themselves
UserCopyShared(heap, g, i) ==
    [addr |-> heap[heap[TemplateAddr].users][i], heap |-> heap]

\* user.copy() on the i-th user of the template: a new dict with the values
\* of the old one, the reference to its key list among them
UserCopy(heap, g, i) ==
    [addr |-> UserAddr(g, i),
     heap |-> (UserAddr(g, i) :> heap[heap[heap[TemplateAddr].users][i]]) @@ heap]

\* user["ssh_authorized_keys"].append(ssh_key): the key is added to the list
\* the dict refers to
AssignKeysAppending(heap, g, user, ssh_key) ==
    [heap EXCEPT ![heap[user].ssh_authorized_keys] = Append(@, ssh_key)]

\* user["ssh_authorized_keys"] = [ssh_key]: a new list, bound in the dict
AssignKeys(heap, g, user, ssh_key) ==
    (KeysAddr(g) :> <<ssh_key>>)
    @@ [heap EXCEPT ![user].has_keys = TRUE,
                    ![user].ssh_authorized_keys = KeysAddr(g)]

\* one statement of _generate_cloud_config in thread g:
\*   copy   cloud_config = CLOUD_CONFIG_TEMPLATE.copy(), a new dict with the
\*          references of the template
\*   users  the comprehension: one user.copy() per user of the template, and
\*          at its end the assignment of the new list to cloud_config["users"]
\*   find   the loop over cloud_config["users"] up to the first "prognose",
\*          which gets the key
\*   dump   yaml.dump of cloud_config under the "#cloud-config" header
GenerateStatement(heap, g) ==
    LET fa == FrameAddr(g)
        f == heap[fa]
        c == ConfigAddr(g)
        list == UsersAddr(g)
    IN CASE f.pc = "copy" ->
              (c :> heap[TemplateAddr]) @@ [heap EXCEPT ![fa].pc = "users"]
         [] f.pc = "users" ->
              IF f.i <= Len(heap[heap[TemplateAddr].users])
              THEN LET cp == UserCopy(heap, g, f.i)
                       made == IF f.i = 1 THEN (list :> <<>>) @@ cp.heap ELSE cp.heap
                   IN [made EXCEPT ![list] = Append(@, cp.addr), ![fa].i = f.i + 1]
              ELSE [heap EXCEPT ![c].users = list, ![fa].pc = "find", ![fa].i = 1]
         [] f.pc = "find" ->
              LET users == heap[heap[c].users]
              IN IF f.i > Len(users) THEN [heap EXCEPT ![fa].pc = "dump"]
                 ELSE IF heap[users[f.i]].name = "prognose"
                 THEN [AssignKeys(heap, g, users[f.i], f.ssh_key)
                          EXCEPT ![fa].pc = "dump"]
                 ELSE [heap EXCEPT ![fa].i = f.i + 1]
         [] f.pc = "dump" ->
              [heap EXCEPT ![fa].pc = "return",
                           ![fa].result = Obj([header |-> "#cloud-config",
                                               yaml |-> ConfigValue(heap, c)])]

\* the call of thread g returns: its frame and the objects it made,
\* unreachable from now on, are dropped
ExitGenerate(heap, g) ==
    LET locals == {FrameAddr(g), ConfigAddr(g), UsersAddr(g), KeysAddr(g)}
                  \cup {UserAddr(g, i) : i \in DOMAIN CLOUD_CONFIG_TEMPLATE.users}
    IN [a \in DOMAIN heap \ locals |-> heap[a]]

\* the statements of thread g to the return statement, none of another thread
\* in between
RECURSIVE RunGenerate(_, _)
RunGenerate(heap, g) ==
    IF heap[FrameAddr(g)].pc = "return" THEN heap
    ELSE RunGenerate(GenerateStatement(heap, g), g)

\* _generate_cloud_config run as one piece in the thread of the request,
\* "g0": the document it returns
GenerateCloudConfig(tmpl, ssh_key) ==
    RunGenerate(EnterGenerate(tmpl, "g0", None, ssh_key),
                "g0")[FrameAddr("g0")].result[1]

\* the heap _generate_cloud_config leaves when it is run as one piece
TemplateAfterGenerate(tmpl, ssh_key) ==
    ExitGenerate(RunGenerate(EnterGenerate(tmpl, "g0", None, ssh_key), "g0"),
                 "g0")

\* _encode_cloud_config: base64 of the UTF-8 text
EncodeCloudConfig(doc) == <<"base64", doc>>

SecretName(bmh_name) == bmh_name \o "-userdata"

SecretNames == {SecretName(h) : h \in Hosts}

\* _create_secret_object
CreateSecretObject(secret_name, cloud_config_b64) ==
    [name |-> secret_name, namespace |-> K8S_NAMESPACE, type |-> "Opaque",
     data |-> [userData |-> cloud_config_b64]]

\* create_or_update after the generation: create the secret; on 409 patch the
\* existing one; every other failure is logged and answered with False
WriteSecret(bmh_name, cloud_config, sec, f) ==
    LET secret_name == SecretName(bmh_name)
        secret == CreateSecretObject(secret_name, EncodeCloudConfig(cloud_config))
        created == IF FaultAt(f, "create_secret") # Served
                   THEN FaultAt(f, "create_secret")
                   ELSE IF sec[secret_name] # Null THEN Conflict ELSE Served
        patched == FaultAt(f, "patch_secret")
        c1 == Call("create_secret", secret_name, secret, created)
        c2 == Call("patch_secret", secret_name, secret, patched)
    IN CASE created = Served ->
              [ok |-> TRUE, calls |-> <<c1>>,
               secrets |-> [sec EXCEPT ![secret_name] = Obj(secret)]]
         [] created = Conflict /\ patched = Served ->
              [ok |-> TRUE, calls |-> <<c1, c2>>,
               secrets |-> [sec EXCEPT ![secret_name] = Obj(PatchSecret(@[1], secret))]]
         [] created = Conflict /\ patched # Served ->
              [ok |-> FALSE, calls |-> <<c1, c2>>, secrets |-> sec]
         [] OTHER ->
              [ok |-> FALSE, calls |-> <<c1>>, secrets |-> sec]

\* create_or_update without the 409 branch: an existing secret is a failure
CreateOrUpdateCreateOnly(bmh_name, ssh_key, sec, tmpl, f) ==
    LET w == WriteSecret(bmh_name, GenerateCloudConfig(tmpl, ssh_key), sec, f)
    IN IF w.calls[1].outcome = Served
       THEN [ok |-> TRUE, calls |-> w.calls, secrets |-> w.secrets,
             template |-> TemplateAfterGenerate(tmpl, ssh_key)]
       ELSE [ok |-> FALSE, calls |-> <<w.calls[1]>>, secrets |-> sec,
             template |-> TemplateAfterGenerate(tmpl, ssh_key)]

\* create_or_update: generate the cloud config, encode it, write the secret
CreateOrUpdate(bmh_name, ssh_key, sec, tmpl, f) ==
    LET w == WriteSecret(bmh_name, GenerateCloudConfig(tmpl, ssh_key), sec, f)
    IN [ok |-> w.ok, calls |-> w.calls, secrets |-> w.secrets,
        template |-> TemplateAfterGenerate(tmpl, ssh_key)]

----------------------------------------------------------------------------
(* BareMetalHostManager: patches *)

\* _create_provision_patch
CreateProvisionPatch(image_url, bmh_name, checksum, checksum_type) ==
    [spec |->
        [image |-> Obj([url |-> image_url, checksum |-> checksum,
                        checksumType |-> checksum_type]),
         userData |-> Obj([name |-> SecretName(bmh_name),
                           namespace |-> K8S_NAMESPACE])]]

\* a deprovision patch that clears the image and leaves a userData reference
CreateDeprovisionPatchKeepingUserData ==
    [spec |-> [image |-> Null,
               userData |-> Obj([name |-> SecretName("bmh1"),
                                 namespace |-> K8S_NAMESPACE])]]

\* _create_deprovision_patch
CreateDeprovisionPatch == [spec |-> [image |-> Null, userData |-> Null]]

\* an _apply_patch that submits a refused patch a second time
ApplyPatchRetrying(bmh_name, patch, specs, f) ==
    LET outcome == FaultAt(f, "patch_host")
        c == Call("patch_host", bmh_name, patch, outcome)
    IN IF outcome = Served
       THEN [ok |-> TRUE, calls |-> <<c>>,
             hostSpec |-> [specs EXCEPT ![bmh_name] = MergePatch(@, patch)]]
       ELSE [ok |-> FALSE, calls |-> <<c, c>>, hostSpec |-> specs]

\* _apply_patch: one patch_namespaced_custom_object call; an ApiException and
\* any other exception are logged and answered with False
ApplyPatch(bmh_name, patch, specs, f) ==
    LET outcome == FaultAt(f, "patch_host")
        c == Call("patch_host", bmh_name, patch, outcome)
    IN IF outcome = Served
       THEN [ok |-> TRUE, calls |-> <<c>>,
             hostSpec |-> [specs EXCEPT ![bmh_name] = MergePatch(@, patch)]]
       ELSE [ok |-> FALSE, calls |-> <<c>>, hostSpec |-> specs]

----------------------------------------------------------------------------
(* ProvisioningMonitor.start_monitoring_async: a new daemon thread that will
   run _monitor_provisioning_completion with these arguments *)

NewMonitor(bmh_name, webhook_id, user_id, event_id, timeout) ==
    [bmh |-> bmh_name, webhook_id |-> webhook_id, user_id |-> user_id,
     event_id |-> event_id, timeout |-> timeout,
     pc |-> "read", first |-> "<unread>", watch |-> "none", queue |-> <<>>,
     exit |-> None, notes |-> <<>>]

\* a provision that waits for its monitor: the wait is over, at its timeout,
\* when provision returns
StartMonitoringWaiting(success, a) ==
    IF success /\ Truthy(a.webhook_id) /\ Truthy(a.user_id)
    THEN <<[NewMonitor(a.bmh_name, a.webhook_id, a.user_id, a.event_id, a.timeout)
               EXCEPT !.pc = "notify", !.exit = "timeout"]>>
    ELSE <<>>

\* a provision that starts its monitor after every accepted patch, with or
\* without the correlation fields
StartMonitoringUncorrelated(success, a) ==
    IF success
    THEN <<NewMonitor(a.bmh_name, a.webhook_id, a.user_id, a.event_id, a.timeout)>>
    ELSE <<>>

\* the monitor provision starts: when the patch was accepted and webhook_id
\* and user_id are both truthy
StartMonitoringAsync(success, a) ==
    IF success /\ Truthy(a.webhook_id) /\ Truthy(a.user_id)
    THEN <<NewMonitor(a.bmh_name, a.webhook_id, a.user_id, a.event_id, a.timeout)>>
    ELSE <<>>

----------------------------------------------------------------------------
(* BareMetalHostManager: operations.  Each yields what it returned (ok), the
   cluster calls it made in order, the cluster and the template after it, and
   the monitor threads it started. *)

\* the secret step of provision: only a truthy ssh_key writes the secret
ProvisionSecret(a, sec, tmpl, f) ==
    IF Truthy(a.ssh_key)
    THEN CreateOrUpdate(a.bmh_name, a.ssh_key, sec, tmpl, f)
    ELSE [ok |-> TRUE, calls |-> <<>>, template |-> tmpl, secrets |-> sec]

\* provision without the check of the secret step: the patch follows a failed
\* secret write as well
ProvisionDespiteSecret(a, sec, specs, tmpl, f) ==
    LET s == ProvisionSecret(a, sec, tmpl, f)
        patch == CreateProvisionPatch(a.image_url, a.bmh_name, a.checksum,
                                      a.checksum_type)
        p == ApplyPatch(a.bmh_name, patch, specs, f)
    IN [ok |-> p.ok, calls |-> s.calls \o p.calls, secrets |-> s.secrets,
        hostSpec |-> p.hostSpec, template |-> s.template,
        spawn |-> StartMonitoringAsync(p.ok, a)]

\* provision
Provision(a, sec, specs, tmpl, f) ==
    LET s == ProvisionSecret(a, sec, tmpl, f)
        patch == CreateProvisionPatch(a.image_url, a.bmh_name, a.checksum,
                                      a.checksum_type)
        p == ApplyPatch(a.bmh_name, patch, specs, f)
    IN IF ~s.ok
       THEN [ok |-> FALSE, calls |-> s.calls, secrets |-> s.secrets,
             hostSpec |-> specs, template |-> s.template, spawn |-> <<>>]
       ELSE [ok |-> p.ok, calls |-> s.calls \o p.calls, secrets |-> s.secrets,
             hostSpec |-> p.hostSpec, template |-> s.template,
             spawn |-> StartMonitoringAsync(p.ok, a)]

\* a deprovision that, after the patch, writes the host's secret anew with
\* the bare template, no key in it
DeprovisionClearingSecret(bmh_name, sec, specs, tmpl, f) ==
    LET p == ApplyPatch(bmh_name, CreateDeprovisionPatch, specs, f)
        bare == CreateSecretObject(
                    SecretName(bmh_name),
                    EncodeCloudConfig([header |-> "#cloud-config",
                                       yaml |-> CLOUD_CONFIG_TEMPLATE]))
        c == Call("create_secret", SecretName(bmh_name), bare, Served)
    IN [ok |-> p.ok, calls |-> p.calls \o <<c>>,
        secrets |-> [sec EXCEPT ![SecretName(bmh_name)] = Obj(bare)],
        hostSpec |-> p.hostSpec, template |-> tmpl, spawn |-> <<>>]

\* deprovision
Deprovision(bmh_name, sec, specs, tmpl, f) ==
    LET p == ApplyPatch(bmh_name, CreateDeprovisionPatch, specs, f)
    IN [ok |-> p.ok, calls |-> p.calls, secrets |-> sec, hostSpec |-> p.hostSpec,
        template |-> tmpl, spawn |-> <<>>]

\* the parameters of patch_baremetalhost
PatchBaremetalhostParams ==
    {"bmh_name", "image_url", "ssh_key", "checksum", "checksum_type",
     "wait_for_completion", "webhook_id", "user_id", "event_id", "timeout"}

\* the defaults of the parameters a caller leaves out
PatchDefaults ==
    [image_url |-> None, ssh_key |-> None, checksum |-> None,
     checksum_type |-> None, webhook_id |-> None, user_id |-> None,
     event_id |-> None, timeout |-> Null]

\* patch_baremetalhost: a truthy image_url provisions, anything else deprovisions
PatchBaremetalhost(a, sec, specs, tmpl, f) ==
    IF Truthy(a.image_url)
    THEN Provision(a, sec, specs, tmpl, f)
    ELSE Deprovision(a.bmh_name, sec, specs, tmpl, f)

\* a call that raised before it reached the cluster
Raised(sec, specs, tmpl) ==
    [ok |-> FALSE, calls |-> <<>>, secrets |-> sec, hostSpec |-> specs,
     template |-> tmpl, spawn |-> <<>>]

----------------------------------------------------------------------------
(* app/utils.py: timestamps *)

\* a timestamp text: a date and time of day to the second (sec), the digits
\* after the decimal point (frac, empty when there is no point), and whether
\* it ends in "Z"; or a text that is no ISO-8601 timestamp
Stamp(sec, frac, z) == [wellformed |-> TRUE, sec |-> sec, frac |-> frac, z |-> z]
Garbage == [wellformed |-> FALSE, sec |-> 0, frac |-> <<>>, z |-> FALSE]

Digit(frac, i) == IF i <= Len(frac) THEN frac[i] ELSE 0

\* fractional[:6].ljust(6, '0') read as a number of microseconds
Microseconds(frac) ==
    Digit(frac, 1) * 100000 + Digit(frac, 2) * 10000 + Digit(frac, 3) * 1000
    + Digit(frac, 4) * 100 + Digit(frac, 5) * 10 + Digit(frac, 6)

\* parse_timestamp: "Z" becomes "+00:00", the fraction is cut to six digits,
\* datetime.fromisoformat reads the rest; the datetime is timezone-aware
\* exactly when the text carried the "Z"
ParseTimestamp(ts) ==
    IF ~ts.wellformed
    THEN [error |-> "ValueError", us |-> 0, aware |-> FALSE]
    ELSE [error |-> None, us |-> ts.sec * 1000000 + Microseconds(ts.frac),
          aware |-> ts.z]

\* a <= b and a < b on datetimes: Python raises TypeError when exactly one
\* of the two is timezone-aware
DatetimeLe(a, b) ==
    IF a.aware # b.aware THEN "TypeError"
    ELSE IF a.us <= b.us THEN "True" ELSE "False"

DatetimeLt(a, b) ==
    IF a.aware # b.aware THEN "TypeError"
    ELSE IF a.us < b.us THEN "True" ELSE "False"

\* start <= now < end: the chained comparison evaluates start <= now first
\* and now < end only when that is true
InWindow(start, now, end) ==
    IF DatetimeLe(start, now) # "True"
    THEN DatetimeLe(start, now)
    ELSE DatetimeLt(now, end)

----------------------------------------------------------------------------
(* app/models.py *)

\* the attributes of a WebhookPayload object
WebhookPayloadAttrs ==
    {"event_type", "timestamp", "event_id", "webhook_id", "user_id", "username",
     "email", "ssh_keys", "image_url", "checksum_url", "image_format",
     "event_title", "event_description", "event_start", "event_end",
     "custom_parameters", "resource_id", "resource_name", "resource_type",
     "resource_specs", "resource_location", "site_id", "site_name"}

IsWebhookPayload(payload) == payload.shape = "WebhookPayload"
IsEventWebhookPayload(payload) == payload.shape = "EventWebhookPayload"

----------------------------------------------------------------------------
(* app/utils.py: the event handlers.  Each yields what a service operation
   yields, and the audit-log calls it made (audits) and the exception it
   swallowed (error). *)

\* the audit sink (services/notification.send_webhook_log) answers True or
\* False, or raises
AuditOutcomes == {"True", "False", "raise"}

WebhookLog(webhook_id, event_type, resource_name, user_id, event_id, outcome) ==
    [webhook_id |-> webhook_id, event_type |-> event_type, success |-> TRUE,
     status_code |-> 200, retry_count |-> 0, resourceName |-> resource_name,
     userId |-> user_id, eventId |-> event_id, outcome |-> outcome]

Handled(r, ok, audits, error) ==
    [ok |-> ok, calls |-> r.calls, secrets |-> r.secrets, hostSpec |-> r.hostSpec,
     template |-> r.template, spawn |-> r.spawn, audits |-> audits,
     error |-> error]

\* An OS slug is a Python str: here the sequence of its code points.

\* str.lower() in Python 3.11 (Unicode 14.0), character by character: of
\* <<first, last, step, delta>> every code point first, first + step, ...,
\* last has the lower-case form delta code points further on
LowerRules ==
    {<<65, 90, 1, 32>>, <<192, 214, 1, 32>>, <<216, 222, 1, 32>>,
     <<256, 302, 2, 1>>, <<306, 310, 2, 1>>, <<313, 327, 2, 1>>,
     <<330, 374, 2, 1>>, <<376, 376, 1, -121>>, <<377, 381, 2, 1>>,
     <<385, 385, 1, 210>>, <<386, 388, 2, 1>>, <<390, 390, 1, 206>>,
     <<391, 391, 1, 1>>, <<393, 394, 1, 205>>, <<395, 395, 1, 1>>,
     <<398, 398, 1, 79>>, <<399, 399, 1, 202>>, <<400, 400, 1, 203>>,
     <<401, 401, 1, 1>>, <<403, 403, 1, 205>>, <<404, 404, 1, 207>>,
     <<406, 406, 1, 211>>, <<407, 407, 1, 209>>, <<408, 408, 1, 1>>,
     <<412, 412, 1, 211>>, <<413, 413, 1, 213>>, <<415, 415, 1, 214>>,
     <<416, 420, 2, 1>>, <<422, 422, 1, 218>>, <<423, 423, 1, 1>>,
     <<425, 425, 1, 218>>, <<428, 428, 1, 1>>, <<430, 430, 1, 218>>,
     <<431, 431, 1, 1>>, <<433, 434, 1, 217>>, <<435, 437, 2, 1>>,
     <<439, 439, 1, 219>>, <<440, 440, 1, 1>>, <<444, 444, 1, 1>>,
     <<452, 452, 1, 2>>, <<453, 453, 1, 1>>, <<455, 455, 1, 2>>,
     <<456, 456, 1, 1>>, <<458, 458, 1, 2>>, <<459, 475, 2, 1>>,
     <<478, 494, 2, 1>>, <<497, 497, 1, 2>>, <<498, 500, 2, 1>>,
     <<502, 502, 1, -97>>, <<503, 503, 1, -56>>, <<504, 542, 2, 1>>,
     <<544, 544, 1, -130>>, <<546, 562, 2, 1>>, <<570, 570, 1, 10795>>,
     <<571, 571, 1, 1>>, <<573, 573, 1, -163>>, <<574, 574, 1, 10792>>,
     <<577, 577, 1, 1>>, <<579, 579, 1, -195>>, <<580, 580, 1, 69>>,
     <<581, 581, 1, 71>>, <<582, 590, 2, 1>>, <<880, 882, 2, 1>>,
     <<886, 886, 1, 1>>, <<895, 895, 1, 116>>, <<902, 902, 1, 38>>,
     <<904, 906, 1, 37>>, <<908, 908, 1, 64>>, <<910, 911, 1, 63>>,
     <<913, 929, 1, 32>>, <<931, 939, 1, 32>>, <<975, 975, 1, 8>>,
     <<984, 1006, 2, 1>>, <<1012, 1012, 1, -60>>, <<1015, 1015, 1, 1>>,
     <<1017, 1017, 1, -7>>, <<1018, 1018, 1, 1>>, <<1021, 1023, 1, -130>>,
     <<1024, 1039, 1, 80>>, <<1040, 1071, 1, 32>>, <<1120, 1152, 2, 1>>,
     <<1162, 1214, 2, 1>>, <<1216, 1216, 1, 15>>, <<1217, 1229, 2, 1>>,
     <<1232, 1326, 2, 1>>, <<1329, 1366, 1, 48>>, <<4256, 4293, 1, 7264>>,
     <<4295, 4295, 1, 7264>>, <<4301, 4301, 1, 7264>>,
     <<5024, 5103, 1, 38864>>, <<5104, 5109, 1, 8>>,
     <<7312, 7354, 1, -3008>>, <<7357, 7359, 1, -3008>>,
     <<7680, 7828, 2, 1>>, <<7838, 7838, 1, -7615>>, <<7840, 7934, 2, 1>>,
     <<7944, 7951, 1, -8>>, <<7960, 7965, 1, -8>>, <<7976, 7983, 1, -8>>,
     <<7992, 7999, 1, -8>>, <<8008, 8013, 1, -8>>, <<8025, 8031, 2, -8>>,
     <<8040, 8047, 1, -8>>, <<8072, 8079, 1, -8>>, <<8088, 8095, 1, -8>>,
     <<8104, 8111, 1, -8>>, <<8120, 8121, 1, -8>>, <<8122, 8123, 1, -74>>,
     <<8124, 8124, 1, -9>>, <<8136, 8139, 1, -86>>, <<8140, 8140, 1, -9>>,
     <<8152, 8153, 1, -8>>, <<8154, 8155, 1, -100>>, <<8168, 8169, 1, -8>>,
     <<8170, 8171, 1, -112>>, <<8172, 8172, 1, -7>>,
     <<8184, 8185, 1, -128>>, <<8186, 8187, 1, -126>>,
     <<8188, 8188, 1, -9>>, <<8486, 8486, 1, -7517>>,
     <<8490, 8490, 1, -8383>>, <<8491, 8491, 1, -8262>>,
     <<8498, 8498, 1, 28>>, <<8544, 8559, 1, 16>>, <<8579, 8579, 1, 1>>,
     <<9398, 9423, 1, 26>>, <<11264, 11311, 1, 48>>, <<11360, 11360, 1, 1>>,
     <<11362, 11362, 1, -10743>>, <<11363, 11363, 1, -3814>>,
     <<11364, 11364, 1, -10727>>, <<11367, 11371, 2, 1>>,
     <<11373, 11373, 1, -10780>>, <<11374, 11374, 1, -10749>>,
     <<11375, 11375, 1, -10783>>, <<11376, 11376, 1, -10782>>,
     <<11378, 11378, 1, 1>>, <<11381, 11381, 1, 1>>,
     <<11390, 11391, 1, -10815>>, <<11392, 11490, 2, 1>>,
     <<11499, 11501, 2, 1>>, <<11506, 11506, 1, 1>>, <<42560, 42604, 2, 1>>,
     <<42624, 42650, 2, 1>>, <<42786, 42798, 2, 1>>, <<42802, 42862, 2, 1>>,
     <<42873, 42875, 2, 1>>, <<42877, 42877, 1, -35332>>,
     <<42878, 42886, 2, 1>>, <<42891, 42891, 1, 1>>,
     <<42893, 42893, 1, -42280>>, <<42896, 42898, 2, 1>>,
     <<42902, 42920, 2, 1>>, <<42922, 42922, 1, -42308>>,
     <<42923, 42923, 1, -42319>>, <<42924, 42924, 1, -42315>>,
     <<42925, 42925, 1, -42305>>, <<42926, 42926, 1, -42308>>,
     <<42928, 42928, 1, -42258>>, <<42929, 42929, 1, -42282>>,
     <<42930, 42930, 1, -42261>>, <<42931, 42931, 1, 928>>,
     <<42932, 42946, 2, 1>>, <<42948, 42948, 1, -48>>,
     <<42949, 42949, 1, -42307>>, <<42950, 42950, 1, -35384>>,
     <<42951, 42953, 2, 1>>, <<42960, 42960, 1, 1>>, <<42966, 42968, 2, 1>>,
     <<42997, 42997, 1, 1>>, <<65313, 65338, 1, 32>>,
     <<66560, 66599, 1, 40>>, <<66736, 66771, 1, 40>>,
     <<66928, 66938, 1, 39>>, <<66940, 66954, 1, 39>>,
     <<66956, 66962, 1, 39>>, <<66964, 66965, 1, 39>>,
     <<68736, 68786, 1, 64>>, <<71840, 71871, 1, 32>>,
     <<93760, 93791, 1, 32>>, <<125184, 125217, 1, 34>>}

\* the cased characters that are not case-ignorable, as <<first, last>>
CasedRanges ==
    {<<65, 90>>, <<97, 122>>, <<170, 170>>, <<181, 181>>, <<186, 186>>,
     <<192, 214>>, <<216, 246>>, <<248, 442>>, <<444, 447>>, <<452, 659>>,
     <<661, 687>>, <<880, 883>>, <<886, 887>>, <<891, 893>>, <<895, 895>>,
     <<902, 902>>, <<904, 906>>, <<908, 908>>, <<910, 929>>, <<931, 1013>>,
     <<1015, 1153>>, <<1162, 1327>>, <<1329, 1366>>, <<1376, 1416>>,
     <<4256, 4293>>, <<4295, 4295>>, <<4301, 4301>>, <<4304, 4346>>,
     <<4349, 4351>>, <<5024, 5109>>, <<5112, 5117>>, <<7296, 7304>>,
     <<7312, 7354>>, <<7357, 7359>>, <<7424, 7467>>, <<7531, 7543>>,
     <<7545, 7578>>, <<7680, 7957>>, <<7960, 7965>>, <<7968, 8005>>,
     <<8008, 8013>>, <<8016, 8023>>, <<8025, 8025>>, <<8027, 8027>>,
     <<8029, 8029>>, <<8031, 8061>>, <<8064, 8116>>, <<8118, 8124>>,
     <<8126, 8126>>, <<8130, 8132>>, <<8134, 8140>>, <<8144, 8147>>,
     <<8150, 8155>>, <<8160, 8172>>, <<8178, 8180>>, <<8182, 8188>>,
     <<8450, 8450>>, <<8455, 8455>>, <<8458, 8467>>, <<8469, 8469>>,
     <<8473, 8477>>, <<8484, 8484>>, <<8486, 8486>>, <<8488, 8488>>,
     <<8490, 8493>>, <<8495, 8500>>, <<8505, 8505>>, <<8508, 8511>>,
     <<8517, 8521>>, <<8526, 8526>>, <<8544, 8575>>, <<8579, 8580>>,
     <<9398, 9449>>, <<11264, 11387>>, <<11390, 11492>>, <<11499, 11502>>,
     <<11506, 11507>>, <<11520, 11557>>, <<11559, 11559>>, <<11565, 11565>>,
     <<42560, 42605>>, <<42624, 42651>>, <<42786, 42863>>, <<42865, 42887>>,
     <<42891, 42894>>, <<42896, 42954>>, <<42960, 42961>>, <<42963, 42963>>,
     <<42965, 42969>>, <<42997, 42998>>, <<43002, 43002>>, <<43824, 43866>>,
     <<43872, 43880>>, <<43888, 43967>>, <<64256, 64262>>, <<64275, 64279>>,
     <<65313, 65338>>, <<65345, 65370>>, <<66560, 66639>>, <<66736, 66771>>,
     <<66776, 66811>>, <<66928, 66938>>, <<66940, 66954>>, <<66956, 66962>>,
     <<66964, 66965>>, <<66967, 66977>>, <<66979, 66993>>, <<66995, 67001>>,
     <<67003, 67004>>, <<68736, 68786>>, <<68800, 68850>>, <<71840, 71903>>,
     <<93760, 93823>>, <<119808, 119892>>, <<119894, 119964>>,
     <<119966, 119967>>, <<119970, 119970>>, <<119973, 119974>>,
     <<119977, 119980>>, <<119982, 119993>>, <<119995, 119995>>,
     <<119997, 120003>>, <<120005, 120069>>, <<120071, 120074>>,
     <<120077, 120084>>, <<120086, 120092>>, <<120094, 120121>>,
     <<120123, 120126>>, <<120128, 120132>>, <<120134, 120134>>,
     <<120138, 120144>>, <<120146, 120485>>, <<120488, 120512>>,
     <<120514, 120538>>, <<120540, 120570>>, <<120572, 120596>>,
     <<120598, 120628>>, <<120630, 120654>>, <<120656, 120686>>,
     <<120688, 120712>>, <<120714, 120744>>, <<120746, 120770>>,
     <<120772, 120779>>, <<122624, 122633>>, <<122635, 122654>>,
     <<125184, 125251>>, <<127280, 127305>>, <<127312, 127337>>,
     <<127344, 127369>>}

\* the case-ignorable characters, as <<first, last>>
CaseIgnorableRanges ==
    {<<39, 39>>, <<46, 46>>, <<58, 58>>, <<94, 94>>, <<96, 96>>,
     <<168, 168>>, <<173, 173>>, <<175, 175>>, <<180, 180>>, <<183, 184>>,
     <<688, 879>>, <<884, 885>>, <<890, 890>>, <<900, 901>>, <<903, 903>>,
     <<1155, 1161>>, <<1369, 1369>>, <<1375, 1375>>, <<1425, 1469>>,
     <<1471, 1471>>, <<1473, 1474>>, <<1476, 1477>>, <<1479, 1479>>,
     <<1524, 1524>>, <<1536, 1541>>, <<1552, 1562>>, <<1564, 1564>>,
     <<1600, 1600>>, <<1611, 1631>>, <<1648, 1648>>, <<1750, 1757>>,
     <<1759, 1768>>, <<1770, 1773>>, <<1807, 1807>>, <<1809, 1809>>,
     <<1840, 1866>>, <<1958, 1968>>, <<2027, 2037>>, <<2042, 2042>>,
     <<2045, 2045>>, <<2070, 2093>>, <<2137, 2139>>, <<2184, 2184>>,
     <<2192, 2193>>, <<2200, 2207>>, <<2249, 2306>>, <<2362, 2362>>,
     <<2364, 2364>>, <<2369, 2376>>, <<2381, 2381>>, <<2385, 2391>>,
     <<2402, 2403>>, <<2417, 2417>>, <<2433, 2433>>, <<2492, 2492>>,
     <<2497, 2500>>, <<2509, 2509>>, <<2530, 2531>>, <<2558, 2558>>,
     <<2561, 2562>>, <<2620, 2620>>, <<2625, 2626>>, <<2631, 2632>>,
     <<2635, 2637>>, <<2641, 2641>>, <<2672, 2673>>, <<2677, 2677>>,
     <<2689, 2690>>, <<2748, 2748>>, <<2753, 2757>>, <<2759, 2760>>,
     <<2765, 2765>>, <<2786, 2787>>, <<2810, 2815>>, <<2817, 2817>>,
     <<2876, 2876>>, <<2879, 2879>>, <<2881, 2884>>, <<2893, 2893>>,
     <<2901, 2902>>, <<2914, 2915>>, <<2946, 2946>>, <<3008, 3008>>,
     <<3021, 3021>>, <<3072, 3072>>, <<3076, 3076>>, <<3132, 3132>>,
     <<3134, 3136>>, <<3142, 3144>>, <<3146, 3149>>, <<3157, 3158>>,
     <<3170, 3171>>, <<3201, 3201>>, <<3260, 3260>>, <<3263, 3263>>,
     <<3270, 3270>>, <<3276, 3277>>, <<3298, 3299>>, <<3328, 3329>>,
     <<3387, 3388>>, <<3393, 3396>>, <<3405, 3405>>, <<3426, 3427>>,
     <<3457, 3457>>, <<3530, 3530>>, <<3538, 3540>>, <<3542, 3542>>,
     <<3633, 3633>>, <<3636, 3642>>, <<3654, 3662>>, <<3761, 3761>>,
     <<3764, 3772>>, <<3782, 3782>>, <<3784, 3789>>, <<3864, 3865>>,
     <<3893, 3893>>, <<3895, 3895>>, <<3897, 3897>>, <<3953, 3966>>,
     <<3968, 3972>>, <<3974, 3975>>, <<3981, 3991>>, <<3993, 4028>>,
     <<4038, 4038>>, <<4141, 4144>>, <<4146, 4151>>, <<4153, 4154>>,
     <<4157, 4158>>, <<4184, 4185>>, <<4190, 4192>>, <<4209, 4212>>,
     <<4226, 4226>>, <<4229, 4230>>, <<4237, 4237>>, <<4253, 4253>>,
     <<4348, 4348>>, <<4957, 4959>>, <<5906, 5908>>, <<5938, 5939>>,
     <<5970, 5971>>, <<6002, 6003>>, <<6068, 6069>>, <<6071, 6077>>,
     <<6086, 6086>>, <<6089, 6099>>, <<6103, 6103>>, <<6109, 6109>>,
     <<6155, 6159>>, <<6211, 6211>>, <<6277, 6278>>, <<6313, 6313>>,
     <<6432, 6434>>, <<6439, 6440>>, <<6450, 6450>>, <<6457, 6459>>,
     <<6679, 6680>>, <<6683, 6683>>, <<6742, 6742>>, <<6744, 6750>>,
     <<6752, 6752>>, <<6754, 6754>>, <<6757, 6764>>, <<6771, 6780>>,
     <<6783, 6783>>, <<6823, 6823>>, <<6832, 6862>>, <<6912, 6915>>,
     <<6964, 6964>>, <<6966, 6970>>, <<6972, 6972>>, <<6978, 6978>>,
     <<7019, 7027>>, <<7040, 7041>>, <<7074, 7077>>, <<7080, 7081>>,
     <<7083, 7085>>, <<7142, 7142>>, <<7144, 7145>>, <<7149, 7149>>,
     <<7151, 7153>>, <<7212, 7219>>, <<7222, 7223>>, <<7288, 7293>>,
     <<7376, 7378>>, <<7380, 7392>>, <<7394, 7400>>, <<7405, 7405>>,
     <<7412, 7412>>, <<7416, 7417>>, <<7468, 7530>>, <<7544, 7544>>,
     <<7579, 7679>>, <<8125, 8125>>, <<8127, 8129>>, <<8141, 8143>>,
     <<8157, 8159>>, <<8173, 8175>>, <<8189, 8190>>, <<8203, 8207>>,
     <<8216, 8217>>, <<8228, 8228>>, <<8231, 8231>>, <<8234, 8238>>,
     <<8288, 8292>>, <<8294, 8303>>, <<8305, 8305>>, <<8319, 8319>>,
     <<8336, 8348>>, <<8400, 8432>>, <<11388, 11389>>, <<11503, 11505>>,
     <<11631, 11631>>, <<11647, 11647>>, <<11744, 11775>>, <<11823, 11823>>,
     <<12293, 12293>>, <<12330, 12333>>, <<12337, 12341>>, <<12347, 12347>>,
     <<12441, 12446>>, <<12540, 12542>>, <<40981, 40981>>, <<42232, 42237>>,
     <<42508, 42508>>, <<42607, 42610>>, <<42612, 42621>>, <<42623, 42623>>,
     <<42652, 42655>>, <<42736, 42737>>, <<42752, 42785>>, <<42864, 42864>>,
     <<42888, 42890>>, <<42994, 42996>>, <<43000, 43001>>, <<43010, 43010>>,
     <<43014, 43014>>, <<43019, 43019>>, <<43045, 43046>>, <<43052, 43052>>,
     <<43204, 43205>>, <<43232, 43249>>, <<43263, 43263>>, <<43302, 43309>>,
     <<43335, 43345>>, <<43392, 43394>>, <<43443, 43443>>, <<43446, 43449>>,
     <<43452, 43453>>, <<43471, 43471>>, <<43493, 43494>>, <<43561, 43566>>,
     <<43569, 43570>>, <<43573, 43574>>, <<43587, 43587>>, <<43596, 43596>>,
     <<43632, 43632>>, <<43644, 43644>>, <<43696, 43696>>, <<43698, 43700>>,
     <<43703, 43704>>, <<43710, 43711>>, <<43713, 43713>>, <<43741, 43741>>,
     <<43756, 43757>>, <<43763, 43764>>, <<43766, 43766>>, <<43867, 43871>>,
     <<43881, 43883>>, <<44005, 44005>>, <<44008, 44008>>, <<44013, 44013>>,
     <<64286, 64286>>, <<64434, 64450>>, <<65024, 65039>>, <<65043, 65043>>,
     <<65056, 65071>>, <<65106, 65106>>, <<65109, 65109>>, <<65279, 65279>>,
     <<65287, 65287>>, <<65294, 65294>>, <<65306, 65306>>, <<65342, 65342>>,
     <<65344, 65344>>, <<65392, 65392>>, <<65438, 65439>>, <<65507, 65507>>,
     <<65529, 65531>>, <<66045, 66045>>, <<66272, 66272>>, <<66422, 66426>>,
     <<67456, 67461>>, <<67463, 67504>>, <<67506, 67514>>, <<68097, 68099>>,
     <<68101, 68102>>, <<68108, 68111>>, <<68152, 68154>>, <<68159, 68159>>,
     <<68325, 68326>>, <<68900, 68903>>, <<69291, 69292>>, <<69446, 69456>>,
     <<69506, 69509>>, <<69633, 69633>>, <<69688, 69702>>, <<69744, 69744>>,
     <<69747, 69748>>, <<69759, 69761>>, <<69811, 69814>>, <<69817, 69818>>,
     <<69821, 69821>>, <<69826, 69826>>, <<69837, 69837>>, <<69888, 69890>>,
     <<69927, 69931>>, <<69933, 69940>>, <<70003, 70003>>, <<70016, 70017>>,
     <<70070, 70078>>, <<70089, 70092>>, <<70095, 70095>>, <<70191, 70193>>,
     <<70196, 70196>>, <<70198, 70199>>, <<70206, 70206>>, <<70367, 70367>>,
     <<70371, 70378>>, <<70400, 70401>>, <<70459, 70460>>, <<70464, 70464>>,
     <<70502, 70508>>, <<70512, 70516>>, <<70712, 70719>>, <<70722, 70724>>,
     <<70726, 70726>>, <<70750, 70750>>, <<70835, 70840>>, <<70842, 70842>>,
     <<70847, 70848>>, <<70850, 70851>>, <<71090, 71093>>, <<71100, 71101>>,
     <<71103, 71104>>, <<71132, 71133>>, <<71219, 71226>>, <<71229, 71229>>,
     <<71231, 71232>>, <<71339, 71339>>, <<71341, 71341>>, <<71344, 71349>>,
     <<71351, 71351>>, <<71453, 71455>>, <<71458, 71461>>, <<71463, 71467>>,
     <<71727, 71735>>, <<71737, 71738>>, <<71995, 71996>>, <<71998, 71998>>,
     <<72003, 72003>>, <<72148, 72151>>, <<72154, 72155>>, <<72160, 72160>>,
     <<72193, 72202>>, <<72243, 72248>>, <<72251, 72254>>, <<72263, 72263>>,
     <<72273, 72278>>, <<72281, 72283>>, <<72330, 72342>>, <<72344, 72345>>,
     <<72752, 72758>>, <<72760, 72765>>, <<72767, 72767>>, <<72850, 72871>>,
     <<72874, 72880>>, <<72882, 72883>>, <<72885, 72886>>, <<73009, 73014>>,
     <<73018, 73018>>, <<73020, 73021>>, <<73023, 73029>>, <<73031, 73031>>,
     <<73104, 73105>>, <<73109, 73109>>, <<73111, 73111>>, <<73459, 73460>>,
     <<78896, 78904>>, <<92912, 92916>>, <<92976, 92982>>, <<92992, 92995>>,
     <<94031, 94031>>, <<94095, 94111>>, <<94176, 94177>>, <<94179, 94180>>,
     <<110576, 110579>>, <<110581, 110587>>, <<110589, 110590>>,
     <<113821, 113822>>, <<113824, 113827>>, <<118528, 118573>>,
     <<118576, 118598>>, <<119143, 119145>>, <<119155, 119170>>,
     <<119173, 119179>>, <<119210, 119213>>, <<119362, 119364>>,
     <<121344, 121398>>, <<121403, 121452>>, <<121461, 121461>>,
     <<121476, 121476>>, <<121499, 121503>>, <<121505, 121519>>,
     <<122880, 122886>>, <<122888, 122904>>, <<122907, 122913>>,
     <<122915, 122916>>, <<122918, 122922>>, <<123184, 123197>>,
     <<123566, 123566>>, <<123628, 123631>>, <<125136, 125142>>,
     <<125252, 125259>>, <<127995, 127999>>, <<917505, 917505>>,
     <<917536, 917631>>, <<917760, 917999>>}

\* cased and not case-ignorable
Cased(c) == \E r \in CasedRanges : r[1] <= c /\ c <= r[2]

CaseIgnorable(c) == \E r \in CaseIgnorableRanges : r[1] <= c /\ c <= r[2]

\* the lower-case form of one character by itself: U+0130 becomes the two
\* code points U+0069 U+0307, every other character one code point
LowerChar(c) ==
    IF c = 304 THEN <<105, 775>>
    ELSE LET hits == {r \in LowerRules :
                         /\ r[1] <= c
                         /\ c <= r[2]
                         /\ (c - r[1]) % r[3] = 0}
         IN IF hits = {} THEN <<c>>
            ELSE <<c + (CHOOSE r \in hits : TRUE)[4]>>

\* the capital sigma at place i ends a word: the nearest character before it
\* that is not case-ignorable is cased, and the nearest such character after
\* it, if there is one, is not
FinalSigma(s, i) ==
    /\ \E j \in 1 .. (i - 1) :
          /\ ~CaseIgnorable(s[j])
          /\ Cased(s[j])
          /\ \A k \in (j + 1) .. (i - 1) : CaseIgnorable(s[k])
    /\ ~\E j \in (i + 1) .. Len(s) :
          /\ ~CaseIgnorable(s[j])
          /\ Cased(s[j])
          /\ \A k \in (i + 1) .. (j - 1) : CaseIgnorable(s[k])

RECURSIVE LowerFrom(_, _)
LowerFrom(s, i) ==
    IF i > Len(s) THEN <<>>
    ELSE (IF s[i] = 931
          THEN <<IF FinalSigma(s, i) THEN 962 ELSE 963>>
          ELSE LowerChar(s[i]))
         \o LowerFrom(s, i + 1)

\* str.lower(): every character becomes its lower-case form, a capital sigma
\* (U+03A3) the final sigma U+03C2 at the end of a word and U+03C3 elsewhere
Lower(s) == LowerFrom(s, 1)

\* get_image_details: the image of the OS slug, the default image otherwise;
\* os_slug is Null for None and Obj(text) for a str
GetImageDetails(os_slug) ==
    IF os_slug = Null \/ os_slug[1] = <<>>
    THEN <<PROVISION_IMAGE, PROVISION_CHECKSUM, PROVISION_CHECKSUM_TYPE>>
    ELSE LET slug == Lower(os_slug[1])
         IN <<IF slug \in OS_SLUGS THEN OS_IMAGES[slug] ELSE PROVISION_IMAGE,
              IF slug \in OS_SLUGS THEN OS_CHECKSUMS[slug] ELSE PROVISION_CHECKSUM,
              PROVISION_CHECKSUM_TYPE>>

\* the keyword arguments handle_provision_event passes to patch_baremetalhost
ProvisionKwargs ==
    {"bmh_name", "image_url", "ssh_keys", "checksum", "checksum_type",
     "wait_for_completion", "webhook_id", "user_id", "event_id", "timeout"}

\* a handler whose lookups succeed and whose call is accepted: no operating
\* system is selected and the first key of the list is passed as ssh_key
HandleProvisionEventResolved(payload, sec, specs, tmpl, f, audit) ==
    LET img == GetImageDetails(Null)
        webhook_id == Str(payload.webhook_id)
        user_id == OrElse(payload.user_id, "unknown")
        a == [bmh_name |-> payload.resource_name, image_url |-> img[1],
              ssh_key |-> IF payload.ssh_keys = <<>> THEN None
                          ELSE payload.ssh_keys[1],
              checksum |-> img[2], checksum_type |-> img[3],
              webhook_id |-> webhook_id, user_id |-> user_id,
              event_id |-> payload.event_id,
              timeout |-> Obj(PROVISIONING_TIMEOUT)]
        r == PatchBaremetalhost(a, sec, specs, tmpl, f)
        log == WebhookLog(webhook_id, EVENT_START, payload.resource_name, user_id,
                          payload.event_id, audit)
    IN IF ~r.ok THEN Handled(r, FALSE, <<>>, None)
       ELSE IF audit = "raise" THEN Handled(r, FALSE, <<log>>, "Exception")
       ELSE Handled(r, TRUE, <<log>>, None)

\* handle_provision_event from the call of patch_baremetalhost on: the call
\* is made with ProvisionKwargs, and a keyword the function lacks raises
\* TypeError before the function runs; were every keyword a parameter, the
\* call would leave ssh_key at its default, and the "provisioning initiated"
\* audit log would follow a True answer
ProvisionCall(payload, os, keys, sec, specs, tmpl, f, audit) ==
    LET img == GetImageDetails(os)
        webhook_id == Str(payload.webhook_id)
        user_id == OrElse(payload.user_id, "unknown")
        a == [bmh_name |-> payload.resource_name, image_url |-> img[1],
              ssh_key |-> PatchDefaults.ssh_key,
              checksum |-> img[2], checksum_type |-> img[3],
              webhook_id |-> webhook_id, user_id |-> user_id,
              event_id |-> payload.event_id,
              timeout |-> Obj(PROVISIONING_TIMEOUT)]
        r == PatchBaremetalhost(a, sec, specs, tmpl, f)
        log == WebhookLog(webhook_id, EVENT_START, payload.resource_name, user_id,
                          payload.event_id, audit)
    IN IF ~(ProvisionKwargs \subseteq PatchBaremetalhostParams)
       THEN Handled(Raised(sec, specs, tmpl), FALSE, <<>>, "TypeError")
       ELSE IF ~r.ok THEN Handled(r, FALSE, <<>>, None)
       ELSE IF audit = "raise" THEN Handled(r, FALSE, <<log>>, "Exception")
       ELSE Handled(r, TRUE, <<log>>, None)

\* handle_provision_event: reads payload.operating_system and, with no key in
\* ssh_keys, payload.ssh_public_key, then calls patch_baremetalhost; an
\* attribute the payload lacks raises AttributeError, and every exception is
\* logged and answered with False
HandleProvisionEvent(payload, sec, specs, tmpl, f, audit) ==
    IF "operating_system" \notin WebhookPayloadAttrs
    THEN Handled(Raised(sec, specs, tmpl), FALSE, <<>>, "AttributeError")
    ELSE IF payload.ssh_keys = <<>> /\ "ssh_public_key" \notin WebhookPayloadAttrs
    THEN Handled(Raised(sec, specs, tmpl), FALSE, <<>>, "AttributeError")
    ELSE ProvisionCall(payload, payload.operating_system, payload.ssh_keys,
                       sec, specs, tmpl, f, audit)

\* handle_deprovision_event: the deprovision patch, then the audit log when
\* the patch was accepted and the event id is truthy; an exception of the log
\* call is logged and answered with False
HandleDeprovisionEvent(payload, sec, specs, tmpl, f, audit) ==
    LET wp == IsWebhookPayload(payload)
        resource_name == IF wp THEN payload.resource_name
                         ELSE payload.data.resource.name
        event_id == IF wp THEN payload.event_id ELSE Str(payload.data.id)
        webhook_id == IF wp THEN Str(payload.webhook_id) ELSE payload.webhook_id
        user_id == IF wp THEN payload.user_id ELSE payload.data.keycloak_id
        a == [PatchDefaults EXCEPT !.image_url = None] @@ [bmh_name |-> resource_name]
        r == PatchBaremetalhost(a, sec, specs, tmpl, f)
        log == WebhookLog(webhook_id, EVENT_END, resource_name, user_id,
                          event_id, audit)
    IN IF ~(wp \/ IsEventWebhookPayload(payload))
       THEN Handled(Raised(sec, specs, tmpl), FALSE, <<>>, None)
       ELSE IF ~r.ok THEN Handled(r, FALSE, <<>>, None)
       ELSE IF ~Truthy(event_id) THEN Handled(r, TRUE, <<>>, None)
       ELSE IF audit = "raise" THEN Handled(r, FALSE, <<log>>, "Exception")
       ELSE Handled(r, TRUE, <<log>>, None)

----------------------------------------------------------------------------
(* app/api.py: handle_webhook.  Yields what a handler yields, and the intent
   the event was classified as (class) and the HTTP response. *)

Response(code, status) == [status_code |-> code, status |-> status]

Answered(h, class, response) ==
    [class |-> class, response |-> response] @@ h

\* a verification that lets every request through
SignatureNeverRejected(auth) == FALSE

\* verify_webhook_signature raises HTTPException(401) when a signing secret is
\* configured and the signature does not verify
SignatureRejected(auth) == auth.secret /\ ~auth.valid

\* a response that reports success whatever the handler answered
HandlerResponseAlwaysSuccess(h) == Response(200, "success")

\* the response of a start or end event: success when the handler answered
\* True, HTTPException(500) otherwise
HandlerResponse(h) ==
    IF h.ok THEN Response(200, "success") ELSE Response(500, "HTTPException")

\* the EVENT_DELETED branch: the three timestamps are parsed, timestamp first;
\* a ValueError of the parser and a TypeError of the comparison are not caught
HandleDeleted(payload, sec, specs, tmpl, f, audit) ==
    LET now == ParseTimestamp(payload.timestamp)
        start == ParseTimestamp(payload.data.start)
        end == ParseTimestamp(payload.data.end)
        none == Handled(Raised(sec, specs, tmpl), TRUE, <<>>, None)
        active == InWindow(start, now, end)
        h == HandleDeprovisionEvent(payload, sec, specs, tmpl, f, audit)
    IN IF now.error # None \/ start.error # None \/ end.error # None
       THEN Answered(none, "Fault", Response(500, "ValueError"))
       ELSE IF active = "TypeError"
       THEN Answered(none, "Fault", Response(500, "TypeError"))
       ELSE IF active = "True"
       THEN Answered(h, "Deprovision", HandlerResponse(h))
       ELSE Answered(none, "NoOp", Response(200, "success"))

\* handle_webhook without the check of the resource type
HandleWebhookAnyResource(payload, auth, sec, specs, tmpl, f, audit) ==
    LET none == Handled(Raised(sec, specs, tmpl), TRUE, <<>>, None)
        p == HandleProvisionEvent(payload, sec, specs, tmpl, f, audit)
        d == HandleDeprovisionEvent(payload, sec, specs, tmpl, f, audit)
    IN IF SignatureRejected(auth)
       THEN Answered(none, "Rejected", Response(401, "HTTPException"))
       ELSE IF IsWebhookPayload(payload)
       THEN IF payload.event_type = EVENT_START
            THEN Answered(p, "Provision", HandlerResponse(p))
            ELSE IF payload.event_type = EVENT_END
            THEN Answered(d, "Deprovision", HandlerResponse(d))
            ELSE Answered(none, "Ignored", Response(200, "ignored"))
       ELSE IF IsEventWebhookPayload(payload)
       THEN IF payload.event_type = EVENT_DELETED
            THEN HandleDeleted(payload, sec, specs, tmpl, f, audit)
            ELSE Answered(none, "Ignored", Response(200, "ignored"))
       ELSE Answered(none, "Error", Response(200, "error"))

\* handle_webhook with the end of a reservation as the default event, and a
\* fault for a payload of neither shape
HandleWebhookEndByDefault(payload, auth, sec, specs, tmpl, f, audit) ==
    LET none == Handled(Raised(sec, specs, tmpl), TRUE, <<>>, None)
        p == HandleProvisionEvent(payload, sec, specs, tmpl, f, audit)
        d == HandleDeprovisionEvent(payload, sec, specs, tmpl, f, audit)
    IN IF SignatureRejected(auth)
       THEN Answered(none, "Rejected", Response(401, "HTTPException"))
       ELSE IF IsWebhookPayload(payload)
       THEN IF payload.resource_type # "Server"
            THEN Answered(none, "NoOp", Response(200, "success"))
            ELSE IF payload.event_type = EVENT_START
            THEN Answered(p, "Provision", HandlerResponse(p))
            ELSE Answered(d, "Deprovision", HandlerResponse(d))
       ELSE IF IsEventWebhookPayload(payload)
       THEN IF payload.event_type = EVENT_DELETED
            THEN HandleDeleted(payload, sec, specs, tmpl, f, audit)
            ELSE Answered(none, "Ignored", Response(200, "ignored"))
       ELSE Answered(none, "Fault", Response(500, "TypeError"))

HandleWebhook(payload, auth, sec, specs, tmpl, f, audit) ==
    LET none == Handled(Raised(sec, specs, tmpl), TRUE, <<>>, None)
        p == HandleProvisionEvent(payload, sec, specs, tmpl, f, audit)
        d == HandleDeprovisionEvent(payload, sec, specs, tmpl, f, audit)
    IN IF SignatureRejected(auth)
       THEN Answered(none, "Rejected", Response(401, "HTTPException"))
       ELSE IF IsWebhookPayload(payload)
       THEN IF payload.resource_type # "Server"
            THEN Answered(none, "NoOp", Response(200, "success"))
            ELSE IF payload.event_type = EVENT_START
            THEN Answered(p, "Provision", HandlerResponse(p))
            ELSE IF payload.event_type = EVENT_END
            THEN Answered(d, "Deprovision", HandlerResponse(d))
            ELSE Answered(none, "Ignored", Response(200, "ignored"))
       ELSE IF IsEventWebhookPayload(payload)
       THEN IF payload.event_type = EVENT_DELETED
            THEN HandleDeleted(payload, sec, specs, tmpl, f, audit)
            ELSE Answered(none, "Ignored", Response(200, "ignored"))
       ELSE Answered(none, "Error", Response(200, "error"))

----------------------------------------------------------------------------
(* The requests the model sends *)

ImgA == "http://images.example/ubuntu-22.04.qcow2"
ChkA == "http://images.example/ubuntu-22.04.qcow2.sha256sum"

WP(event_type, resource_type, resource_name, event_id, ssh_keys, image_url, checksum_url) ==
    [shape |-> "WebhookPayload", event_type |-> event_type,
     resource_type |-> resource_type, resource_name |-> resource_name,
     webhook_id |-> 7, user_id |-> "u1", event_id |-> event_id,
     ssh_keys |-> ssh_keys, image_url |-> image_url,
     checksum_url |-> checksum_url, image_format |-> None]

EP(event_type, timestamp, start, end) ==
    [shape |-> "EventWebhookPayload", event_type |-> event_type,
     timestamp |-> timestamp, webhook_id |-> "7",
     data |-> [id |-> 3, start |-> start, end |-> end,
               resource |-> [name |-> "bmh1"], keycloak_id |-> "u1"]]

StartPayloads ==
    {WP(EVENT_START, "Server", h, "e1", k, i, c) :
        h \in Hosts, k \in {<<>>, <<"k1">>, <<"k1", "k2">>},
        i \in {None, "", ImgA},
        c \in {None, "", ChkA}}

EndPayloads ==
    {WP(EVENT_END, "Server", h, e, <<>>, None, None) : h \in Hosts, e \in {"e1", ""}}

OtherPayloads ==
    {WP(t, "Switch", "bmh1", "e1", <<"k1">>, ImgA, ChkA) :
        t \in {EVENT_START, EVENT_END, "EVENT_UPDATED"}}
    \cup {WP("EVENT_UPDATED", "Server", "bmh1", "e1", <<"k1">>, ImgA, ChkA)}

\* the reservation window of the deleted events: from second 2 to second 4
WindowStart(z) == Stamp(2, <<>>, z)
WindowEnd(z) == Stamp(4, <<>>, z)

\* event times: just before the start (to the nanosecond), at the start,
\* inside, at the end, and just after the end (below the microsecond)
EventTimes(z) ==
    {Stamp(1, <<9, 9, 9, 9, 9, 9, 9, 9, 9>>, z), Stamp(2, <<>>, z),
     Stamp(3, <<5>>, z), Stamp(4, <<>>, z), Stamp(4, <<0, 0, 0, 0, 0, 0, 1>>, z)}

DeletedPayloads ==
    {EP(EVENT_DELETED, now, WindowStart(zs), WindowEnd(ze)) :
        now \in EventTimes(TRUE) \cup EventTimes(FALSE), zs \in BOOLEAN,
        ze \in BOOLEAN}
    \cup {EP(EVENT_DELETED, Garbage, WindowStart(TRUE), WindowEnd(TRUE)),
          EP(EVENT_DELETED, Stamp(3, <<>>, TRUE), WindowStart(TRUE), Garbage),
          EP("EVENT_CREATED", Stamp(3, <<>>, TRUE), WindowStart(TRUE),
             WindowEnd(TRUE))}

UnknownPayload == [shape |-> "Unknown"]

NoSecretConfigured == [secret |-> FALSE, valid |-> FALSE]
BadSignature == [secret |-> TRUE, valid |-> FALSE]
GoodSignature == [secret |-> TRUE, valid |-> TRUE]

\* the webhook requests: a payload and how its signature fares
WebhookRequests ==
    ((StartPayloads \cup EndPayloads \cup OtherPayloads \cup DeletedPayloads
      \cup {UnknownPayload}) \X {NoSecretConfigured})
    \cup ({WP(EVENT_START, "Server", "bmh1", "e1", <<"k1">>, ImgA, ChkA),
           WP(EVENT_END, "Server", "bmh1", "e1", <<>>, None, None)}
          \X {BadSignature, GoodSignature})

\* the correlation fields of a direct call: webhook_id, user_id, event_id
Correlations ==
    {<<None, None, None>>, <<"w1", "u1", "e1">>, <<"w1", None, "e1">>}

\* direct calls of patch_baremetalhost
ServiceCalls ==
    {[bmh_name |-> h, image_url |-> ImgA, ssh_key |-> k, checksum |-> ChkA,
      checksum_type |-> "sha256", webhook_id |-> c[1], user_id |-> c[2],
      event_id |-> c[3], timeout |-> Null] :
        h \in Hosts, k \in {None, "", "k1", "k2"}, c \in Correlations}
    \cup {[PatchDefaults EXCEPT !.image_url = i] @@ [bmh_name |-> h] :
        h \in Hosts, i \in {None, ""}}

\* what the cluster and the audit sink do to one request: every call served
\* and the audit log answering or raising, or one cluster call failing (no
\* audit log is sent after a failed cluster call)
Environments ==
    ({NoFault} \X AuditOutcomes) \cup ((Faults \ {NoFault}) \X {"True"})

----------------------------------------------------------------------------
(* BareMetalHostManager.wait_for_provisioning and ProvisioningMonitor *)

\* the values of status.provisioning.state the cluster shows; "provisioning"
\* stands for every value the wait treats as not final (a missing state,
\* "preparing", "inspecting", ...)
HostStates == {"provisioning", "provisioned", "error", "failed"}

WatchEventOf(type, state) == [type |-> type, state |-> state]

\* the first read: get_namespaced_custom_object raises ApiException(404) for
\* a host that does not exist
ReadOutcome(how, state) ==
    IF how = Served /\ state = Absent THEN ApiError ELSE how

\* what the first read showed: the state, the absence of the host, or nothing
FirstReadShows(how, state) == IF how = Served THEN state ELSE "<fault>"

\* a first read that ends the wait on a failed read only: every state it
\* shows is left to the watch
FirstReadExitWatchFirst(outcome, state) ==
    CASE outcome = ApiError -> "read-api-error"
      [] outcome = OtherError -> "read-error"
      [] OTHER -> None

\* how the first read ends the wait, None when the wait goes on to the watch
FirstReadExit(outcome, state) ==
    CASE outcome = ApiError -> "read-api-error"
      [] outcome = OtherError -> "read-error"
      [] state = "provisioned" -> "already-provisioned"
      [] state \in {"error", "failed"} -> "already-failed"
      [] OTHER -> None

\* a loop body that takes every state it does not name for a failure
WatchEventExitStrict(event) ==
    IF event.type \in {"MODIFIED", "ADDED"}
    THEN CASE event.state = "provisioned" -> "provisioned"
           [] event.state \in {"preparing", "provisioning", "inspecting"} -> None
           [] OTHER -> "failed"
    ELSE IF event.type = "DELETED" THEN "deleted" ELSE None

\* how one watch notification ends the wait, None when the watch goes on
WatchEventExit(event) ==
    IF event.type \in {"MODIFIED", "ADDED"}
    THEN CASE event.state = "provisioned" -> "provisioned"
           [] event.state \in {"error", "failed"} -> "failed"
           [] OTHER -> None
    ELSE IF event.type = "DELETED" THEN "deleted" ELSE None

\* the value wait_for_provisioning returns on each of its exits
WaitResult(exit) == exit \in {"already-provisioned", "provisioned"}

\* a wait without its finally clause
WatchLeftAsIs(watch) == watch

\* the finally clause: w.stop() releases the watch when one was opened
WatchAfterWait(watch) == IF watch \in {"open", "ended"} THEN "closed" ELSE watch

\* the error message the monitor reports for the result of the wait
ErrorMessage(success) ==
    IF success THEN None ELSE "Provisioning timeout or failed"

\* the two deliveries of the notifier (services/notification) each answer True
\* or False, or raise
DeliveryOutcomes == {"True", "False", "raise"}

\* the audit log of a notifier call that has made its notification and has
\* yet to call send_webhook_log
NotYetSent == "<not yet sent>"

\* _send_notification: the notification, then the audit log; an exception of
\* either ends the call, which logs it and returns
SendNotification(m, success, error_message, n1, n2) ==
    [webhook_id |-> m.webhook_id, user_id |-> m.user_id,
     resource_name |-> m.bmh, event_id |-> m.event_id,
     success |-> success, error_message |-> error_message,
     notification |-> n1, log |-> IF n1 = "raise" THEN "skipped" ELSE n2]

\* a _send_notification that lets the exceptions of the deliveries through
SendNotificationLeaks(n1, n2) == n1 = "raise" \/ n2 = "raise"

\* every exception of the deliveries is caught inside _send_notification
SendNotificationRaises(n1, n2) == FALSE

\* _monitor_provisioning_completion after the wait: one notifier call with the
\* result, and a second one ("Monitoring error") only when the first raised
NotifierCalls(m, n1, n2) ==
    LET success == WaitResult(m.exit)
        first == SendNotification(m, success, ErrorMessage(success), n1, n2)
        second == SendNotification(m, FALSE, "Monitoring error", n1, n2)
    IN IF SendNotificationRaises(n1, n2) THEN <<first, second>> ELSE <<first>>

Leave(m, exit) ==
    [m EXCEPT !.pc = "notify", !.exit = exit, !.queue = <<>>,
              !.watch = WatchAfterWait(m.watch)]

----------------------------------------------------------------------------
(* The state machine *)

IdleReq ==
    [pc |-> "idle", entry |-> "none", input |-> [shape |-> "none"],
     auth |-> NoSecretConfigured, class |-> "none",
     response |-> Response(0, "none"), ok |-> FALSE, calls |-> <<>>,
     audits |-> <<>>, error |-> None, spawned |-> 0,
     prior |-> [spec |-> NoSpec, secret |-> Null], plan |-> Null]

Init ==
    /\ secrets = [n \in SecretNames |-> Null]
    /\ hostSpec = [h \in Hosts |-> NoSpec]
    /\ hostState = [h \in Hosts |-> "provisioning"]
    /\ template = TemplateObjects
    /\ monitors = <<>>
    /\ req = IdleReq

\* the host a request names
TargetOf(input) ==
    IF input.shape = "WebhookPayload" THEN input.resource_name
    ELSE IF input.shape = "EventWebhookPayload" THEN input.data.resource.name
    ELSE IF input.shape = "Unknown" THEN "bmh1"
    ELSE input.bmh_name

\* a start that runs one monitor per host: a second provision of a host whose
\* monitor is running starts none
StartThreadsOncePerHost(running, spawn) ==
    running \o SelectSeq(spawn, LAMBDA n :
                   \A i \in 1 .. Len(running) :
                      running[i].bmh = n.bmh => running[i].pc = "done")

\* a start that keeps the correlation fields in one place for all monitors:
\* the monitors running take the fields of the one just started
StartThreadsSharingIds(running, spawn) ==
    IF spawn = <<>> THEN running
    ELSE [i \in 1 .. Len(running) |->
             [running[i] EXCEPT !.webhook_id = spawn[1].webhook_id,
                                !.user_id = spawn[1].user_id,
                                !.event_id = spawn[1].event_id]] \o spawn

\* thread.start(): every monitor started is a thread of its own, with its
\* arguments, next to those running
StartThreads(running, spawn) == running \o spawn

\* the cluster calls that write a secret
SecretApis == {"create_secret", "patch_secret"}

\* what a running request does next, in the order of the code: its cluster
\* calls, then thread.start() of its monitor, then its audit log, then its answer
NextEffect(r) ==
    LET out == r.plan[1]
    IN IF Len(r.calls) < Len(out.calls) THEN "call"
       ELSE IF r.spawned < Len(out.spawn) THEN "start"
       ELSE IF Len(r.audits) < Len(out.audits) THEN "log"
       ELSE "answer"

\* the secrets of the cluster after the k-th call of an operation: a served
\* create_namespaced_secret stores its body under its name, a served
\* patch_namespaced_secret replaces type and data of the secret of its name
\* as it is then; every other secret stays as it is then
SecretsAfter(out, k, sec) ==
    LET c == out.calls[k]
    IN IF c.outcome # Served THEN sec
       ELSE IF c.api = "create_secret"
       THEN [sec EXCEPT ![c.name] = Obj(c.body)]
       ELSE IF c.api = "patch_secret"
       THEN [sec EXCEPT ![c.name] = Obj(PatchSecret(@[1], c.body))]
       ELSE sec

\* the hosts of the cluster after the k-th call of an operation: a served
\* patch_namespaced_custom_object merges its body into the spec of its host
\* as it is then; every other host stays as it is then
HostSpecAfter(out, k, specs) ==
    LET c == out.calls[k]
    IN IF c.outcome = Served /\ c.api = "patch_host"
       THEN [specs EXCEPT ![c.name] = MergePatch(@, c.body)]
       ELSE specs

\* the handler has returned: the request has its answer
Answer(r) ==
    LET out == r.plan[1]
    IN [r EXCEPT !.pc = "done", !.class = out.class, !.response = out.response,
                 !.ok = out.ok, !.error = out.error, !.plan = Null]

\* the request after its next effect; nothing but the answer follows the last
Performed(r) ==
    LET out == r.plan[1]
        kind == NextEffect(r)
        after == CASE kind = "call" ->
                        [r EXCEPT !.calls = Append(@, out.calls[Len(@) + 1])]
                   [] kind = "start" -> [r EXCEPT !.spawned = Len(out.spawn)]
                   [] kind = "log" ->
                        [r EXCEPT !.audits = Append(@, out.audits[Len(@) + 1])]
                   [] OTHER -> r
    IN IF NextEffect(after) = "answer" THEN Answer(after) ELSE after

\* a running request makes its next cluster call, starts its thread or sends
\* its audit log; every other thread may run before the one after
Advance(r) ==
    LET out == r.plan[1]
        kind == NextEffect(r)
        k == Len(r.calls) + 1
    IN /\ secrets' = IF kind = "call" THEN SecretsAfter(out, k, secrets)
                     ELSE secrets
       /\ hostSpec' = IF kind = "call" THEN HostSpecAfter(out, k, hostSpec)
                      ELSE hostSpec
       /\ monitors' = IF kind = "start" THEN StartThreads(monitors, out.spawn)
                      ELSE monitors
       /\ req' = Performed(r)
       /\ UNCHANGED hostState

\* a request is taken up: it runs, without a call to the cluster, as far as
\* its first effect, and that effect is made
Begin(out, entry, input, auth) ==
    LET h == TargetOf(input)
    IN /\ Len(monitors) + Len(out.spawn) <= MaxMonitors
       /\ template' = out.template
       /\ Advance([pc |-> "running", entry |-> entry, input |-> input,
                   auth |-> auth, class |-> "none",
                   response |-> Response(0, "none"), ok |-> FALSE,
                   calls |-> <<>>, audits |-> <<>>, error |-> None,
                   spawned |-> 0,
                   prior |-> [spec |-> hostSpec[h],
                              secret |-> secrets[SecretName(h)]],
                   plan |-> Obj(out)])

\* POST /webhook
WebhookRequest ==
    /\ req.pc = "idle"
    /\ \E w \in WebhookRequests, e \in Environments :
          Begin(HandleWebhook(w[1], w[2], secrets, hostSpec, template, e[1], e[2]),
                "webhook", w[1], w[2])

\* a direct call of patch_baremetalhost
ServiceRequestOf(calls, faults) ==
    /\ req.pc = "idle"
    /\ \E a \in calls, f \in faults :
          LET r == PatchBaremetalhost(a, secrets, hostSpec, template, f)
              class == IF Truthy(a.image_url) THEN "Provision" ELSE "Deprovision"
          IN Begin(Answered(Handled(r, r.ok, <<>>, None), class,
                            Response(0, "none")),
                   "service", [shape |-> "call"] @@ a, NoSecretConfigured)

ServiceRequest == ServiceRequestOf(ServiceCalls, Faults)

\* direct calls of create_userdata_secret
SecretCalls == {[bmh_name |-> h, ssh_key |-> k] : h \in Hosts, k \in {"k1", "k2"}}

\* a direct call of create_userdata_secret, the alias of create_or_update:
\* the secret is written, no host is patched and no thread is started
SecretRequest ==
    /\ req.pc = "idle"
    /\ \E a \in SecretCalls, f \in Faults :
          LET s == CreateOrUpdate(a.bmh_name, a.ssh_key, secrets, template, f)
              r == [ok |-> s.ok, calls |-> s.calls, secrets |-> s.secrets,
                    hostSpec |-> hostSpec, template |-> s.template,
                    spawn |-> <<>>]
          IN Begin(Answered(Handled(r, r.ok, <<>>, None), "Secret",
                            Response(0, "none")),
                   "service", [shape |-> "secret"] @@ a, NoSecretConfigured)

\* direct calls of start_monitoring_async
MonitoringCalls ==
    {[bmh_name |-> "bmh1", webhook_id |-> "w1", user_id |-> "u1",
      event_id |-> "e1", timeout |-> Null]}

\* a direct call of start_monitoring_async: the thread is started, whatever
\* the host is; the call makes no cluster call and returns None
MonitoringRequestOf(calls) ==
    /\ req.pc = "idle"
    /\ \E a \in calls :
          LET r == [ok |-> FALSE, calls |-> <<>>, secrets |-> secrets,
                    hostSpec |-> hostSpec, template |-> template,
                    spawn |-> <<NewMonitor(a.bmh_name, a.webhook_id, a.user_id,
                                           a.event_id, a.timeout)>>]
          IN Begin(Answered(Handled(r, FALSE, <<>>, None), "Monitoring",
                            Response(0, "none")),
                   "service", [shape |-> "monitoring"] @@ a, NoSecretConfigured)

MonitoringRequest == MonitoringRequestOf(MonitoringCalls)

\* the request that is running goes on to its next effect
Continue ==
    /\ req.pc = "running"
    /\ Advance(req)
    /\ UNCHANGED template

\* the answer is sent; the server is idle again
Return ==
    /\ req.pc = "done"
    /\ req' = IdleReq
    /\ UNCHANGED <<secrets, hostSpec, hostState, template, monitors>>

Monitors == 1 .. Len(monitors)

SetMonitor(i, m) ==
    /\ monitors' = [monitors EXCEPT ![i] = m]
    /\ UNCHANGED <<secrets, hostSpec, hostState, template, req>>

\* wait_for_provisioning: the first, direct read of the host's status
FirstRead(i) ==
    /\ i \in Monitors
    /\ monitors[i].pc = "read"
    /\ \E how \in {Served, ApiError, OtherError} :
          LET state == hostState[monitors[i].bmh]
              m == [monitors[i] EXCEPT !.first = FirstReadShows(how, state)]
              exit == FirstReadExit(ReadOutcome(how, state), state)
          IN SetMonitor(i, IF exit = None THEN [m EXCEPT !.pc = "open"]
                           ELSE Leave(m, exit))

\* a watch that reports only what changes after it was opened
NoInitialEvents(state) == <<>>

\* what a watch opened without a resource version reports first: the host as
\* it is, when there is one
InitialEvents(state) ==
    IF state = Absent THEN <<>> ELSE <<WatchEventOf("ADDED", state)>>

\* wait_for_provisioning: the watch is opened; the cluster first reports the
\* host as it is (ADDED), or the list call fails
OpenWatch(i) ==
    /\ i \in Monitors
    /\ monitors[i].pc = "open"
    /\ \E how \in {Served, ApiError, OtherError} :
          LET m == monitors[i]
              state == hostState[m.bmh]
          IN SetMonitor(i,
                IF how # Served THEN Leave(m, "watch-error")
                ELSE [m EXCEPT !.pc = "watch", !.watch = "open",
                               !.queue = InitialEvents(state)])

\* wait_for_provisioning: the loop body on the next notification
WatchEvent(i) ==
    /\ i \in Monitors
    /\ monitors[i].pc = "watch"
    /\ monitors[i].queue # <<>>
    /\ LET m == monitors[i]
           exit == WatchEventExit(Head(m.queue))
       IN SetMonitor(i, IF exit = None THEN [m EXCEPT !.queue = Tail(@)]
                        ELSE Leave(m, exit))

\* timeout_seconds have passed: the cluster ends the stream, and what it
\* sent before is still to be read
StreamEnd(i) ==
    /\ i \in Monitors
    /\ monitors[i].pc = "watch"
    /\ monitors[i].watch = "open"
    /\ SetMonitor(i, [monitors[i] EXCEPT !.watch = "ended"])

\* the loop is left at the end of the stream: the watch timed out
WatchTimeout(i) ==
    /\ i \in Monitors
    /\ monitors[i].pc = "watch"
    /\ monitors[i].watch = "ended"
    /\ monitors[i].queue = <<>>
    /\ SetMonitor(i, Leave(monitors[i], "timeout"))

\* the stream raises (connection lost, error notification)
WatchFault(i) ==
    /\ i \in Monitors
    /\ monitors[i].pc = "watch"
    /\ SetMonitor(i, Leave(monitors[i], "watch-error"))

\* _monitor_provisioning_completion after the wait: _send_notification calls
\* send_provisioning_notification; an exception ends the notifier call, an
\* answer leaves the audit log to send
Notify(i) ==
    /\ i \in Monitors
    /\ monitors[i].pc = "notify"
    /\ \E n1 \in DeliveryOutcomes :
          LET m == monitors[i]
          IN SetMonitor(i,
                IF n1 = "raise"
                THEN [m EXCEPT !.pc = "done",
                               !.notes = @ \o NotifierCalls(m, n1, n1)]
                ELSE [m EXCEPT !.pc = "log",
                               !.notes = @ \o NotifierCalls(m, n1, NotYetSent)])

\* _send_notification goes on to send_webhook_log, whatever threads ran since
\* the notification; the notifier call is over
NotifyLog(i) ==
    /\ i \in Monitors
    /\ monitors[i].pc = "log"
    /\ \E n2 \in DeliveryOutcomes :
          LET m == monitors[i]
              n1 == m.notes[Len(m.notes)].notification
          IN SetMonitor(i,
                [m EXCEPT !.pc = "done",
                          !.notes = SubSeq(@, 1, Len(@) - 1)
                                       \o NotifierCalls(m, n1, n2)])

\* the cluster changes the status of a host some monitor has yet to read or
\* is watching, or deletes or recreates the host; every open watch on it is
\* notified, of a change that leaves the state as it is as well, and the
\* cluster may send a notification of another type in its place (BOOKMARK,
\* whose object has no status)
HostChange ==
    \E h \in Hosts, s \in HostStates \cup {Absent}, type \in {"MODIFIED", "BOOKMARK"} :
       LET old == hostState[h]
           event == IF s = Absent THEN WatchEventOf("DELETED", "")
                    ELSE IF old = Absent THEN WatchEventOf("ADDED", s)
                    ELSE IF type = "BOOKMARK" THEN WatchEventOf(type, "")
                    ELSE WatchEventOf(type, s)
           watching(i) == /\ monitors[i].bmh = h
                          /\ monitors[i].pc = "watch"
                          /\ monitors[i].watch = "open"
       IN /\ s # old \/ (s # Absent /\ \E i \in Monitors : watching(i))
          /\ type = "BOOKMARK" => (s = old /\ s # Absent)
          /\ \E i \in Monitors :
                /\ monitors[i].bmh = h
                /\ monitors[i].pc \in {"read", "open", "watch"}
                /\ monitors[i].watch # "ended"
          /\ \A i \in Monitors : watching(i) => Len(monitors[i].queue) < MaxQueue
          /\ hostState' = [hostState EXCEPT ![h] = s]
          /\ monitors' = [i \in Monitors |->
                            IF watching(i)
                            THEN [monitors[i] EXCEPT !.queue = Append(@, event)]
                            ELSE monitors[i]]
          /\ UNCHANGED <<secrets, hostSpec, template, req>>

\* the threads of a caller that writes user data secrets side by side
Generators == {"g1", "g2"}

\* the key written for each host by these threads
HostKey == [h \in Hosts |-> IF h = "bmh1" THEN "k1" ELSE "k2"]

\* thread g calls create_userdata_secret, which enters _generate_cloud_config
GenerateCall(g) ==
    /\ FrameAddr(g) \notin DOMAIN template
    /\ CallAddr(g) \notin DOMAIN template
    /\ \E h \in Hosts :
          template' = EnterGenerate(template, g, h, HostKey[h])
    /\ UNCHANGED <<secrets, hostSpec, hostState, monitors, req>>

\* thread g runs its next statement of _generate_cloud_config
GenerateStep(g) ==
    /\ FrameAddr(g) \in DOMAIN template
    /\ template[FrameAddr(g)].pc # "return"
    /\ template' = GenerateStatement(template, g)
    /\ UNCHANGED <<secrets, hostSpec, hostState, monitors, req>>

\* _generate_cloud_config of thread g returns its document to
\* create_or_update, which encodes it, builds the secret and calls
\* create_namespaced_secret: the thread waits for the cluster
GenerateReturn(g) ==
    /\ FrameAddr(g) \in DOMAIN template
    /\ template[FrameAddr(g)].pc = "return"
    /\ LET frame == template[FrameAddr(g)]
       IN template' = (CallAddr(g) :> [pc |-> "create_secret",
                                       bmh_name |-> frame.bmh_name,
                                       cloud_config |-> frame.result[1]])
                      @@ ExitGenerate(template, g)
    /\ UNCHANGED <<secrets, hostSpec, hostState, monitors, req>>

\* the cluster answers the call thread g waits at. create_namespaced_secret:
\* served, the secret is stored and create_or_update returns True; refused
\* with 409, the thread calls patch_namespaced_secret and waits again; any
\* other failure returns False. patch_namespaced_secret: served, the secret
\* of that moment is patched and True returned; a failure returns False
GenerateAnswer(g) ==
    /\ CallAddr(g) \in DOMAIN template
    /\ \E f \in Faults :
          LET call == template[CallAddr(g)]
              secret_name == SecretName(call.bmh_name)
              secret == CreateSecretObject(secret_name,
                                           EncodeCloudConfig(call.cloud_config))
              outcome == IF FaultAt(f, call.pc) # Served THEN FaultAt(f, call.pc)
                         ELSE IF call.pc = "create_secret"
                                 /\ secrets[secret_name] # Null
                         THEN Conflict ELSE Served
              c == Call(call.pc, secret_name, secret, outcome)
          IN /\ secrets' = SecretsAfter([calls |-> <<c>>], 1, secrets)
             /\ template' =
                   IF outcome = Conflict
                   THEN [template EXCEPT ![CallAddr(g)].pc = "patch_secret"]
                   ELSE [a \in DOMAIN template \ {CallAddr(g)} |-> template[a]]
    /\ UNCHANGED <<hostSpec, hostState, monitors, req>>

\* the program under calls of create_userdata_secret from two threads: their
\* generations run statement by statement, in every interleaving
GenerateNext ==
    \/ \E g \in Generators : GenerateCall(g)
    \/ \E g \in Generators : GenerateStep(g)
    \/ \E g \in Generators : GenerateReturn(g)
    \/ \E g \in Generators : GenerateAnswer(g)

GenerateSpec == Init /\ [][GenerateNext]_vars

\* the program: the requests, effect by effect, the threads of the monitors
\* they start, the cluster, and the threads that write secrets side by side
Next ==
    \/ WebhookRequest
    \/ ServiceRequest
    \/ SecretRequest
    \/ MonitoringRequest
    \/ Continue
    \/ Return
    \/ \E i \in Monitors : FirstRead(i)
    \/ \E i \in Monitors : OpenWatch(i)
    \/ \E i \in Monitors : WatchEvent(i)
    \/ \E i \in Monitors : StreamEnd(i)
    \/ \E i \in Monitors : WatchTimeout(i)
    \/ \E i \in Monitors : WatchFault(i)
    \/ \E i \in Monitors : Notify(i)
    \/ \E i \in Monitors : NotifyLog(i)
    \/ HostChange
    \/ \E g \in Generators : GenerateCall(g)
    \/ \E g \in Generators : GenerateStep(g)
    \/ \E g \in Generators : GenerateReturn(g)
    \/ \E g \in Generators : GenerateAnswer(g)

Spec == Init /\ [][Next]_vars

\* the direct calls of patch_baremetalhost that start no thread: those
\* without a webhook_id or without a user_id
UncorrelatedCalls ==
    {a \in ServiceCalls : ~(Truthy(a.webhook_id) /\ Truthy(a.user_id))}

\* the program under the requests that start no thread: the webhook (no
\* provision of handle_provision_event gets as far as its patch), the direct
\* calls without both correlation fields, and the secret calls
RequestNext ==
    \/ WebhookRequest
    \/ ServiceRequestOf(UncorrelatedCalls, Faults)
    \/ SecretRequest
    \/ Continue
    \/ Return

RequestSpec == Init /\ [][RequestNext]_vars

\* the provisions of one host, with and without a key and the correlation
\* fields
StartCalls ==
    {a \in ServiceCalls :
        a.bmh_name = "bmh1" /\ Truthy(a.image_url) /\ a.ssh_key \in {None, "k1"}}

StartProvision ==
    /\ Len(monitors) < MaxObserved
    /\ ServiceRequestOf(StartCalls, Faults)

\* the program under provisions of one host whose status the cluster leaves
\* as it is: the requests and the threads they start
StartNext ==
    \/ StartProvision
    \/ Continue
    \/ Return
    \/ \E i \in Monitors : FirstRead(i)
    \/ \E i \in Monitors : OpenWatch(i)
    \/ \E i \in Monitors : WatchEvent(i)
    \/ \E i \in Monitors : StreamEnd(i)
    \/ \E i \in Monitors : WatchTimeout(i)
    \/ \E i \in Monitors : WatchFault(i)
    \/ \E i \in Monitors : Notify(i)
    \/ \E i \in Monitors : NotifyLog(i)

StartSpec == Init /\ [][StartNext]_vars

\* a thread started by a direct call of start_monitoring_async
MonitoredStart ==
    /\ Len(monitors) < MaxObserved
    /\ MonitoringRequest

\* the monitors: the calls of start_monitoring_async that start them, their
\* threads, and the cluster
MonitorNext ==
    \/ MonitoredStart
    \/ Return
    \/ \E i \in Monitors : FirstRead(i)
    \/ \E i \in Monitors : OpenWatch(i)
    \/ \E i \in Monitors : WatchEvent(i)
    \/ \E i \in Monitors : StreamEnd(i)
    \/ \E i \in Monitors : WatchTimeout(i)
    \/ \E i \in Monitors : WatchFault(i)
    \/ \E i \in Monitors : Notify(i)
    \/ \E i \in Monitors : NotifyLog(i)
    \/ HostChange

MonitorSpec == Init /\ [][MonitorNext]_vars

\* the next step of a monitor thread that is not waiting for the cluster
MonitorStep(i) ==
    \/ FirstRead(i)
    \/ OpenWatch(i)
    \/ WatchEvent(i)
    \/ WatchTimeout(i)
    \/ Notify(i)
    \/ NotifyLog(i)

\* every thread that can run is run, and the cluster ends every watch stream
\* after timeout_seconds, however often the host changes in between
MonitorFairness ==
    \A i \in 1 .. MaxObserved :
        /\ WF_vars(MonitorStep(i))
        /\ WF_vars(StreamEnd(i))

FairMonitorSpec == MonitorSpec /\ MonitorFairness

\* two provisions of one host, each with correlation fields of its own
ConcurrentCall(c) ==
    [bmh_name |-> "bmh1", image_url |-> ImgA, ssh_key |-> None,
     checksum |-> ChkA, checksum_type |-> "sha256", webhook_id |-> c[1],
     user_id |-> c[2], event_id |-> c[3], timeout |-> Null]

ConcurrentCalls ==
    <<ConcurrentCall(<<"w1", "u1", "e1">>), ConcurrentCall(<<"w2", "u2", "e2">>)>>

\* the next of the two provisions, while the monitors of those before run
ConcurrentProvision ==
    /\ Len(monitors) < Len(ConcurrentCalls)
    /\ ServiceRequestOf({ConcurrentCalls[Len(monitors) + 1]}, {NoFault})

\* the two provisions, the threads of their monitors, and the cluster
ConcurrentNext ==
    \/ ConcurrentProvision
    \/ Continue
    \/ Return
    \/ \E i \in Monitors : FirstRead(i)
    \/ \E i \in Monitors : OpenWatch(i)
    \/ \E i \in Monitors : WatchEvent(i)
    \/ \E i \in Monitors : StreamEnd(i)
    \/ \E i \in Monitors : WatchTimeout(i)
    \/ \E i \in Monitors : WatchFault(i)
    \/ \E i \in Monitors : Notify(i)
    \/ \E i \in Monitors : NotifyLog(i)
    \/ HostChange

ConcurrentSpec == Init /\ [][ConcurrentNext]_vars

ConcurrentFairness ==
    \A i \in 1 .. Len(ConcurrentCalls) :
        /\ WF_vars(MonitorStep(i))
        /\ WF_vars(StreamEnd(i))

FairConcurrentSpec == ConcurrentSpec /\ ConcurrentFairness

----------------------------------------------------------------------------
(* Properties of the requests *)

Done == req.pc = "done"

\* a provision intent: EVENT_START on a Server over the webhook, accepted
ProvisionIntent ==
    /\ Done
    /\ req.entry = "webhook"
    /\ req.class = "Provision"

\* a provision operation of the host manager
ProvisionOperation ==
    /\ Done
    /\ req.entry = "service"
    /\ req.class = "Provision"

DeprovisionIntent == Done /\ req.class = "Deprovision"

FullImage(p) == Truthy(p.image_url) /\ Truthy(p.checksum_url)

HostPatches(calls) == {i \in DOMAIN calls : calls[i].api = "patch_host"}

SecretWrites(calls) == {i \in DOMAIN calls : calls[i].api \in SecretApis}

\* the write of the secret failed: its last call was not served
SecretWriteFailed(calls) ==
    /\ SecretWrites(calls) # {}
    /\ \E i \in SecretWrites(calls) :
          /\ \A j \in SecretWrites(calls) : j <= i
          /\ calls[i].outcome # Served

\* the keys a stored secret authorizes for the login user
AuthorizedKeys(secret) ==
    LET doc == secret.data.userData[2].yaml
    IN doc.users[FirstPrognose(doc.users)].ssh_authorized_keys

\* C1: a provision intent with non-empty imageUrl and checksumUrl submits a
\* host patch whose spec.image.url is the imageUrl and whose spec.userData.name
\* is resourceName-userdata (unless the secret write failed before the patch)
C1_ProvisionPatchCarriesIntent ==
    (ProvisionIntent /\ FullImage(req.input)) =>
        \/ SecretWriteFailed(req.calls)
        \/ \E i \in HostPatches(req.calls) :
              LET c == req.calls[i]
              IN /\ c.name = req.input.resource_name
                 /\ c.body.spec.image # Null
                 /\ c.body.spec.image[1].url = req.input.image_url
                 /\ c.body.spec.userData # Null
                 /\ c.body.spec.userData[1].name
                        = req.input.resource_name \o "-userdata"

\* C2: a provision intent whose imageUrl or checksumUrl is missing or empty
\* issues no secret write and no patch, starts no monitor, and returns failure
C2_IncompleteImageIssuesNothing ==
    (ProvisionIntent /\ ~FullImage(req.input)) =>
        /\ req.calls = <<>>
        /\ req.spawned = 0
        /\ ~req.ok

C2_Witness ==
    /\ ProvisionIntent
    /\ req.input.image_url = ""
    /\ Truthy(req.input.checksum_url)
    /\ req.input.ssh_keys # <<>>
    /\ ~req.ok
    /\ req.calls = <<>>

\* C3: a deprovision intent submits one patch to the host it names, and the
\* patch sets spec.image and spec.userData to null whatever the host held
C3_DeprovisionPatchClears ==
    DeprovisionIntent =>
        /\ Len(req.calls) = 1
        /\ req.calls[1].api = "patch_host"
        /\ req.calls[1].name = TargetOf(req.input)
        /\ req.calls[1].body.spec.image = Null
        /\ req.calls[1].body.spec.userData = Null

C3_Witness ==
    /\ DeprovisionIntent
    /\ req.entry = "webhook"
    /\ req.prior.spec.image # Null
    /\ req.prior.spec.userData # Null
    /\ req.calls[1].outcome = Served
    /\ hostSpec[TargetOf(req.input)].image = Null
    /\ hostSpec[TargetOf(req.input)].userData = Null

\* the instant a well-formed timestamp names, in microseconds
Instant(ts) == ts.sec * 1000000 + Microseconds(ts.frac)

\* a reservation-deleted event with three well-formed timestamps, accepted
DeletedEvent ==
    /\ Done
    /\ req.entry = "webhook"
    /\ req.class # "Rejected"
    /\ IsEventWebhookPayload(req.input)
    /\ req.input.event_type = EVENT_DELETED
    /\ req.input.timestamp # Garbage
    /\ req.input.data.start # Garbage
    /\ req.input.data.end # Garbage

\* C4: a reservation-deleted event is classified Deprovision exactly when
\* start <= now < end; otherwise it is a No-Op and submits no patch
C4_DeletedInsideWindowOnly ==
    DeletedEvent =>
        LET now == Instant(req.input.timestamp)
            start == Instant(req.input.data.start)
            end == Instant(req.input.data.end)
        IN IF start <= now /\ now < end
           THEN req.class = "Deprovision"
           ELSE req.class = "NoOp" /\ req.calls = <<>>

\* C8: a provision operation for a host whose secret already holds the same
\* keys leaves the secret's content as it was and succeeds
C8_RepeatedProvisionKeepsSecret ==
    (/\ ProvisionOperation
     /\ Truthy(req.input.ssh_key)
     /\ req.prior.secret # Null
     /\ AuthorizedKeys(req.prior.secret[1]) = <<req.input.ssh_key>>
     /\ \A i \in DOMAIN req.calls : req.calls[i].outcome \in {Served, Conflict})
    => /\ req.ok
       /\ secrets[SecretName(req.input.bmh_name)] = req.prior.secret
       /\ \E i \in SecretWrites(req.calls) : req.calls[i].outcome = Served

C8_Witness ==
    /\ ProvisionOperation
    /\ Truthy(req.input.ssh_key)
    /\ req.prior.secret # Null
    /\ AuthorizedKeys(req.prior.secret[1]) = <<req.input.ssh_key>>
    /\ Len(req.calls) = 3
    /\ req.calls[1].api = "create_secret" /\ req.calls[1].outcome = Conflict
    /\ req.calls[2].api = "patch_secret" /\ req.calls[2].outcome = Served
    /\ req.ok
    /\ secrets[SecretName(req.input.bmh_name)] = req.prior.secret

\* C9: in a provision operation no host patch is submitted before the secret
\* write has returned, and when the secret write fails the operation returns
\* false, submits no patch and starts no monitor
C9_SecretBeforePatch ==
    ProvisionOperation =>
        /\ \A i \in HostPatches(req.calls), j \in SecretWrites(req.calls) : j < i
        /\ (Truthy(req.input.ssh_key) /\ HostPatches(req.calls) # {}) =>
              \E j \in SecretWrites(req.calls) : req.calls[j].outcome = Served
        /\ SecretWriteFailed(req.calls) =>
              /\ ~req.ok
              /\ HostPatches(req.calls) = {}
              /\ req.spawned = 0
              /\ hostSpec[req.input.bmh_name] = req.prior.spec

C9_Witness ==
    /\ ProvisionOperation
    /\ Truthy(req.input.webhook_id) /\ Truthy(req.input.user_id)
    /\ SecretWriteFailed(req.calls)
    /\ ~req.ok
    /\ HostPatches(req.calls) = {}
    /\ req.spawned = 0

\* C10: every provision patch is immediately preceded, in the same operation,
\* by a successful write of the secret the patch names, for every sshKeys value
C10_PatchFollowsSecretWrite ==
    ProvisionOperation =>
        \A i \in HostPatches(req.calls) :
            /\ i > 1
            /\ req.calls[i - 1].api \in SecretApis
            /\ req.calls[i - 1].outcome = Served
            /\ req.calls[i - 1].name = req.calls[i].body.spec.userData[1].name
            /\ req.calls[i - 1].name = SecretName(req.input.bmh_name)

----------------------------------------------------------------------------
(* Properties of the monitors *)

\* the monitor has concluded: its wait is over
Concluded(m) == m.pc \in {"notify", "log", "done"}

\* the outcome a monitor that has finished reported, once
Reported(m, success) ==
    m.pc = "done" => Len(m.notes) = 1 /\ m.notes[1].success = success

\* C5: a monitor whose first read shows a terminal state concludes at once
\* with the matching outcome (provisioned: success; error, failed or absent:
\* failure) and never opens a watch
C5_TerminalFirstReadConcludes ==
    \A i \in Monitors :
        LET m == monitors[i]
        IN /\ m.first = "provisioned" =>
                /\ Concluded(m) /\ m.watch = "none"
                /\ WaitResult(m.exit) /\ Reported(m, TRUE)
           /\ m.first \in {"error", "failed", Absent} =>
                /\ Concluded(m) /\ m.watch = "none"
                /\ ~WaitResult(m.exit) /\ Reported(m, FALSE)

C5_Witness ==
    \E i \in Monitors :
        /\ monitors[i].first = Absent
        /\ monitors[i].pc = "done"
        /\ monitors[i].watch = "none"
        /\ Len(monitors[i].notes) = 1
        /\ ~monitors[i].notes[1].success

\* every way the wait can end
WaitExits ==
    {"read-api-error", "read-error", "already-provisioned", "already-failed",
     "provisioned", "failed", "deleted", "timeout", "watch-error"}

\* the reason names the timeout: no other end of the wait reports it
IdentifiesTimeout(reason) ==
    /\ reason # None
    /\ \A e \in WaitExits \ {"timeout"} : ErrorMessage(WaitResult(e)) # reason

\* C6: a monitor that meets no terminal state within its timeout reports
\* failure with a reason that identifies the timeout, in exactly one call of
\* the notifier
C6_TimeoutReasonNamesTimeout ==
    \A i \in Monitors :
        LET m == monitors[i]
        IN (m.exit = "timeout" /\ m.pc = "done") =>
              /\ Len(m.notes) = 1
              /\ ~m.notes[1].success
              /\ IdentifiesTimeout(m.notes[1].error_message)

\* no monitor calls the notifier before its wait is over or more than once,
\* and a finished monitor has called it once with the outcome of its wait
NotifiedOnce ==
    \A i \in Monitors :
        LET m == monitors[i]
        IN /\ Len(m.notes) <= 1
           /\ m.pc \notin {"log", "done"} => m.notes = <<>>
           /\ m.pc \in {"log", "done"} =>
                 /\ Len(m.notes) = 1
                 /\ m.exit \in WaitExits
                 /\ m.notes[1].success = WaitResult(m.exit)
                 /\ m.notes[1].log = NotYetSent <=> m.pc = "log"

Finished(i) == i \in Monitors /\ monitors[i].pc = "done"

\* C7: every monitor that is started reaches one terminal outcome and calls
\* the notifier exactly once, whichever way its wait ends: again and again
\* every monitor started so far has finished
C7_EveryMonitorNotifiesOnce ==
    /\ []NotifiedOnce
    /\ []<>(\A i \in Monitors : Finished(i))

C7_Witness ==
    \E i \in Monitors :
        /\ monitors[i].pc = "done"
        /\ monitors[i].exit = "watch-error"
        /\ Len(monitors[i].notes) = 1
        /\ monitors[i].notes[1].notification = "raise"

----------------------------------------------------------------------------
(* Properties of the operations and of the classification *)

\* the host patch of the request was accepted by the cluster
PatchAccepted(calls) ==
    \E i \in HostPatches(calls) : calls[i].outcome = Served

\* C11: a provision operation starts a monitor exactly when its patch was
\* accepted and webhook_id and user_id are both present; a failed patch, a
\* failed secret write or a missing correlation field starts none; and the
\* operation has returned while the monitor it started has yet to make its
\* first read
C11_MonitorIffAcceptedAndCorrelated ==
    /\ [](ProvisionOperation =>
             LET a == req.input
                 due == /\ PatchAccepted(req.calls)
                        /\ Truthy(a.webhook_id)
                        /\ Truthy(a.user_id)
             IN /\ req.spawned = IF due THEN 1 ELSE 0
                /\ SecretWriteFailed(req.calls) => req.spawned = 0
                /\ req.spawned = 1 => req.ok)
    /\ [][req'.spawned > req.spawned =>
             LET a == req'.input
             IN /\ monitors' = Append(monitors,
                                     NewMonitor(a.bmh_name, a.webhook_id,
                                                a.user_id, a.event_id, a.timeout))
                /\ req'.pc = "done"]_vars

\* the operation has returned True, and the thread it started has run since
C11_Witness ==
    /\ ProvisionOperation
    /\ Truthy(req.input.ssh_key)
    /\ PatchAccepted(req.calls)
    /\ req.spawned = 1
    /\ req.ok
    /\ monitors[Len(monitors)].bmh = req.input.bmh_name
    /\ monitors[Len(monitors)].pc # "read"

\* the class of a request that is running or answered
ClassOf(r) == IF r.plan # Null THEN r.plan[1].class ELSE r.class

\* the step is a step of a deprovision request, from its patch to its answer
DeprovisionStep ==
    /\ req' # req
    /\ req'.pc \in {"running", "done"}
    /\ ClassOf(req)' = "Deprovision"

\* C12: a deprovision submits only its patch: it leaves every secret as it
\* was and starts no monitor; and no step of any operation removes a secret
C12_DeprovisionLeavesSecrets ==
    [][/\ \A n \in SecretNames : secrets[n] # Null => secrets'[n] # Null
       /\ DeprovisionStep =>
             /\ secrets' = secrets
             /\ monitors' = monitors
             /\ SecretWrites(req'.calls) = {}
             /\ \A i \in DOMAIN req'.calls : req'.calls[i].api = "patch_host"
             /\ req'.spawned = 0]_vars

C12_Witness ==
    /\ DeprovisionIntent
    /\ req.prior.secret # Null
    /\ secrets[SecretName(TargetOf(req.input))] = req.prior.secret
    /\ req.calls[1].outcome = Served
    /\ req.spawned = 0

\* the calls of one kind a request made
CallsOf(calls, api) == {i \in DOMAIN calls : calls[i].api = api}

\* the call failed: an ApiException other than a 409, or any other exception
FailedCall(c) == c.outcome \in {ApiError, OtherError}

\* C13: a failed secret write or patch submission makes the operation return
\* failure and is the last call of the request (it is not tried again); every
\* request makes at most one host patch, at most one secret create and at
\* most one secret update, the update only after a create answered 409
C13_FailureReturnedNotRetried ==
    Done =>
        /\ \A i \in DOMAIN req.calls :
              FailedCall(req.calls[i]) => ~req.ok /\ i = Len(req.calls)
        /\ Cardinality(CallsOf(req.calls, "patch_host")) <= 1
        /\ Cardinality(CallsOf(req.calls, "create_secret")) <= 1
        /\ Cardinality(CallsOf(req.calls, "patch_secret")) <= 1
        /\ \A i \in CallsOf(req.calls, "patch_secret") :
              /\ i > 1
              /\ req.calls[i - 1].api = "create_secret"
              /\ req.calls[i - 1].outcome = Conflict

C13_Witness ==
    /\ Done
    /\ req.entry = "webhook"
    /\ req.class = "Deprovision"
    /\ Len(req.calls) = 1
    /\ req.calls[1].api = "patch_host"
    /\ req.calls[1].outcome = OtherError
    /\ ~req.ok

\* a start or end event for a resource that is no Server, past the signature
NonServerEvent ==
    /\ Done
    /\ req.entry = "webhook"
    /\ req.class # "Rejected"
    /\ IsWebhookPayload(req.input)
    /\ req.input.resource_type # "Server"

\* the request had no effect outside the service
NoExternalCall ==
    /\ req.calls = <<>>
    /\ req.audits = <<>>
    /\ req.spawned = 0
    /\ hostSpec[TargetOf(req.input)] = req.prior.spec
    /\ secrets[SecretName(TargetOf(req.input))] = req.prior.secret

\* C15: an event for a resource type other than "Server" is a No-Op whatever
\* its event type: a success response and no secret write, host patch,
\* monitor, notification or audit call
C15_NonServerIsNoOp ==
    NonServerEvent =>
        /\ req.class = "NoOp"
        /\ req.response = Response(200, "success")
        /\ NoExternalCall

C15_Witness ==
    /\ NonServerEvent
    /\ req.input.event_type = EVENT_START
    /\ Truthy(req.input.image_url)
    /\ req.response = Response(200, "success")
    /\ req.calls = <<>>

\* an event of a type the service does not know, in either payload shape
UnknownEventType ==
    /\ Done
    /\ req.entry = "webhook"
    /\ req.class # "Rejected"
    /\ \/ /\ IsWebhookPayload(req.input)
          /\ req.input.event_type \notin {EVENT_START, EVENT_END}
       \/ /\ IsEventWebhookPayload(req.input)
          /\ req.input.event_type # EVENT_DELETED

\* a payload of neither shape
UnknownShape ==
    /\ Done
    /\ req.entry = "webhook"
    /\ req.class # "Rejected"
    /\ ~IsWebhookPayload(req.input)
    /\ ~IsEventWebhookPayload(req.input)

\* C16: an event of unknown type is answered without a fault and without any
\* external call; a payload of neither shape is answered with an error
\* result, not a fault, and without any external call
C16_UnknownTypeAndShape ==
    /\ UnknownEventType =>
          /\ req.class \in {"NoOp", "Ignored"}
          /\ req.response.status_code = 200
          /\ req.response.status \in {"success", "ignored"}
          /\ NoExternalCall
    /\ UnknownShape =>
          /\ req.class = "Error"
          /\ req.response = Response(200, "error")
          /\ NoExternalCall

C16_Witness ==
    /\ UnknownShape
    /\ req.response = Response(200, "error")
    /\ req.calls = <<>>

\* C17: with a signing secret configured, a request whose signature does not
\* verify is rejected with 401 before its payload is looked at: no secret
\* write, host patch, monitor, notification or audit call
C17_BadSignatureRejected ==
    (Done /\ req.entry = "webhook" /\ req.auth.secret /\ ~req.auth.valid) =>
        /\ req.class = "Rejected"
        /\ req.response = Response(401, "HTTPException")
        /\ NoExternalCall

C17_Witness ==
    /\ Done
    /\ req.entry = "webhook"
    /\ req.auth = BadSignature
    /\ req.input.event_type = EVENT_END
    /\ req.input.resource_type = "Server"
    /\ req.response.status_code = 401
    /\ req.calls = <<>>

\* C14: in every call of the notifier both the notification and the audit
\* log are attempted, whatever the other one did, and the monitor sees no
\* exception of the notifier (it makes no second, "Monitoring error" call)
C14_BothDeliveriesAttempted ==
    \A i \in Monitors :
        /\ Len(monitors[i].notes) <= 1
        /\ monitors[i].pc = "done" =>
              \A k \in DOMAIN monitors[i].notes :
                 /\ monitors[i].notes[k].notification \in DeliveryOutcomes
                 /\ monitors[i].notes[k].log \in DeliveryOutcomes

\* the request ended on an error path past the signature check
ErrorPath ==
    /\ Done
    /\ req.entry = "webhook"
    /\ req.class \in {"Provision", "Deprovision", "Fault"}
    /\ req.response.status_code >= 400

\* the audit records a monitor's notifier calls produced
AuditRecords(m) == {k \in DOMAIN m.notes : m.notes[k].log # "skipped"}

\* C18: every request with correlation identifiers that ends on an error path
\* produces exactly one audit record, and so does every monitor that ends in
\* failure
C18_ErrorPathsAuditedOnce ==
    /\ ErrorPath => Len(req.audits) = 1
    /\ \A i \in Monitors :
          (monitors[i].pc = "done" /\ ~WaitResult(monitors[i].exit)) =>
              Cardinality(AuditRecords(monitors[i])) = 1

\* a cluster call of the request failed
DependencyFailed == \E i \in DOMAIN req.calls : FailedCall(req.calls[i])

\* C19: when the secret write or the host patch of a provision or deprovision
\* request fails, the webhook caller is answered with a server-side failure,
\* never a success, and no monitor is started
C19_DependencyFailureIsServerError ==
    (Done /\ req.entry = "webhook" /\ DependencyFailed) =>
        /\ req.class \in {"Provision", "Deprovision"}
        /\ req.response.status_code = 500
        /\ req.response.status # "success"
        /\ req.spawned = 0

C19_Witness ==
    /\ Done
    /\ req.entry = "webhook"
    /\ IsEventWebhookPayload(req.input)
    /\ req.class = "Deprovision"
    /\ DependencyFailed
    /\ req.calls[1].outcome = ApiError
    /\ req.response.status_code = 500
    /\ req.spawned = 0

\* a reservation-deleted event with a timestamp that cannot be parsed, or a
\* provision event without its image fields
MalformedPayload ==
    /\ Done
    /\ req.entry = "webhook"
    /\ req.class # "Rejected"
    /\ \/ /\ IsEventWebhookPayload(req.input)
          /\ req.input.event_type = EVENT_DELETED
          /\ \/ req.input.timestamp = Garbage
             \/ req.input.data.start = Garbage
             \/ req.input.data.end = Garbage
       \/ /\ IsWebhookPayload(req.input)
          /\ req.input.resource_type = "Server"
          /\ req.input.event_type = EVENT_START
          /\ ~FullImage(req.input)

\* C20: a malformed or incomplete payload is answered with a client-side
\* rejection (4xx), not a server-side failure, and no external call is made
C20_MalformedIsClientError ==
    MalformedPayload =>
        /\ req.response.status_code \in 400 .. 499
        /\ NoExternalCall

----------------------------------------------------------------------------
(* Properties of the monitors beside the requests *)

\* the step is that of a provision request that starts its monitor
MonitoredProvisionStep ==
    /\ req.pc = "running"
    /\ ClassOf(req) = "Provision"
    /\ req.spawned = 0
    /\ req'.spawned = 1

\* the step moves a monitor that was already running
MonitorMoved ==
    \E i \in Monitors : i \in DOMAIN monitors' /\ monitors'[i] # monitors[i]

\* C21: a provision request has its answer when the patch is submitted and
\* the monitor is started: the monitor has yet to make its first read when
\* the request is done, and no later step of a monitor changes the answer
\* given or submits anything to the cluster again
C21_ResponseIndependentOfMonitor ==
    [][/\ MonitoredProvisionStep =>
             /\ req'.pc = "done"
             /\ req'.ok
             /\ monitors'[Len(monitors')].pc = "read"
             /\ monitors'[Len(monitors')].notes = <<>>
       /\ MonitorMoved =>
             /\ req' = req
             /\ hostSpec' = hostSpec
             /\ secrets' = secrets]_vars

C21_Witness ==
    /\ Done
    /\ req.class = "Provision"
    /\ req.ok
    /\ req.spawned = 1
    /\ \E i \in Monitors :
          /\ monitors[i].pc = "done"
          /\ monitors[i].exit = "timeout"
          /\ hostSpec[monitors[i].bmh].image # Null

----------------------------------------------------------------------------
(* Properties of the image and of the monitor's reasons *)

\* the format the extension of an image URL stands for
FormatOfUrl(url) == IF url = ImgA THEN "qcow2" ELSE "raw"

\* C22: a provision intent without imageFormat has the format derived from
\* the extension of its image URL, and the patch it submits carries it
C22_FormatFromExtension ==
    /\ (ProvisionIntent /\ FullImage(req.input) /\ req.input.image_format = None) =>
          \/ SecretWriteFailed(req.calls)
          \/ HostPatches(req.calls) # {}
    /\ (Done /\ req.class = "Provision") =>
          \A i \in HostPatches(req.calls) :
             LET image == req.calls[i].body.spec.image[1]
             IN /\ "format" \in DOMAIN image
                /\ image.format = FormatOfUrl(image.url)

\* the wait of the monitor ended on a fault of the transport: the first read
\* or the watch raised, the host being there
TransportFault(m) ==
    \/ m.exit \in {"read-error", "watch-error"}
    \/ m.exit = "read-api-error" /\ m.first = "<fault>"

\* the reasons the monitor gives for a timeout and for a terminal failure
OtherFailureReasons ==
    {ErrorMessage(WaitResult(e)) : e \in {"timeout", "failed", "already-failed", "deleted"}}

\* C23: a fault of the transport while the monitor reads or watches ends it in
\* failure with a reason of its own ("monitor error"), which is neither the
\* reason of a timeout nor that of a terminal failure
C23_FaultHasOwnReason ==
    \A i \in Monitors :
        LET m == monitors[i]
        IN (m.pc = "done" /\ TransportFault(m)) =>
              /\ Len(m.notes) = 1
              /\ ~m.notes[1].success
              /\ m.notes[1].error_message \notin OtherFailureReasons

\* monitor i leaves the watch loop on the notification at the head of its queue
WatchConcluded(i) ==
    /\ monitors[i].pc = "watch"
    /\ monitors'[i].pc = "notify"
    /\ monitors'[i].exit \in {"provisioned", "failed", "deleted"}

\* C24: while watching, the monitor concludes on the state of update-type
\* (MODIFIED) notifications only, and on a deletion notification, which ends
\* it in failure; a notification of any other type never ends it
C24_OnlyModifiedInterpreted ==
    [][\A i \in Monitors :
          WatchConcluded(i) =>
             LET e == Head(monitors[i].queue)
             IN /\ monitors[i].queue # <<>>
                /\ monitors'[i].exit = "deleted" <=> e.type = "DELETED"
                /\ monitors'[i].exit # "deleted" => e.type = "MODIFIED"]_vars

\* the values of status.provisioning.state that are not final, the missing
\* state ('') and a value unknown to the wait included
NonTerminalStates ==
    {"", "unprovisioned", "preparing", "inspecting", "provisioning",
     "deprovisioning", "available"}

\* monitor i leaves the wait in this step
WaitLeft(i) ==
    /\ monitors[i].pc \in {"read", "open", "watch"}
    /\ monitors'[i].pc = "notify"

\* C25: the wait answers success only on a first read or a MODIFIED / ADDED
\* notification that shows state "provisioned", the notifier is told success
\* only then, and no state that is not final (unprovisioned, preparing,
\* inspecting, provisioning, deprovisioning, empty, unknown) ends the wait,
\* neither at the first read nor in a notification
C25_SuccessOnlyOnProvisioned ==
    [][/\ \A s \in NonTerminalStates :
             /\ FirstReadExit(ReadOutcome(Served, s), s) = None
             /\ \A t \in {"MODIFIED", "ADDED", "BOOKMARK"} :
                   WatchEventExit(WatchEventOf(t, s)) = None
       /\ \A i \in Monitors :
             LET m == monitors[i]
                 n == monitors'[i]
                 e == Head(m.queue)
             IN /\ (WaitLeft(i) /\ WaitResult(n.exit)) =>
                      \/ m.pc = "read" /\ n.first = "provisioned"
                                       /\ hostState[m.bmh] = "provisioned"
                      \/ /\ m.pc = "watch" /\ m.queue # <<>>
                         /\ e.type \in {"MODIFIED", "ADDED"}
                         /\ e.state = "provisioned"
                /\ (WaitLeft(i) /\ m.pc = "read") =>
                      n.first \notin NonTerminalStates
                /\ (WaitLeft(i) /\ n.exit \in {"provisioned", "failed"}) =>
                      e.state \notin NonTerminalStates
                /\ (m.pc \in {"notify", "log"} /\ n.pc # m.pc) =>
                      /\ n.notes # <<>>
                      /\ \A k \in 1 .. Len(n.notes) :
                            n.notes[k].success => WaitResult(m.exit)]_vars

C25_Witness ==
    \E i \in Monitors :
        /\ monitors[i].pc = "done"
        /\ monitors[i].first = "provisioning"
        /\ monitors[i].exit = "provisioned"
        /\ monitors[i].notes[1].success

\* C26: a monitor that has left the wait holds no open watch, whichever way
\* it left: success, terminal failure, deletion, timeout or a raised fault;
\* the exits of the watch loop leave the watch they opened closed
C26_WatchReleased ==
    \A i \in Monitors :
        LET m == monitors[i]
        IN /\ m.pc \in {"notify", "log", "done"} =>
                 /\ m.watch \in {"none", "closed"}
                 /\ m.exit \in {"provisioned", "failed", "deleted", "timeout"} =>
                       m.watch = "closed"
                 /\ m.queue = <<>>
           /\ m.watch \in {"open", "ended"} => m.pc = "watch"

C26_Witness ==
    \E i \in Monitors :
        /\ monitors[i].pc = "done"
        /\ monitors[i].exit = "watch-error"
        /\ monitors[i].watch = "closed"

\* the host of monitor i shows "provisioned" while the monitor is still
\* waiting and the time bound of its watch has not passed
ProvisionedInTime(i) ==
    /\ i \in Monitors
    /\ monitors[i].pc \in {"read", "open", "watch"}
    /\ monitors[i].watch # "ended"
    /\ hostState[monitors[i].bmh] = "provisioned"

\* monitor i has told the notifier of a success
ConcludedSuccess(i) ==
    /\ i \in Monitors
    /\ monitors[i].pc = "done"
    /\ WaitResult(monitors[i].exit)
    /\ Len(monitors[i].notes) = 1
    /\ monitors[i].notes[1].success

\* the host of monitor i did not stay provisioned, or the monitor had ended
\* before on a fault of the transport or on a failure or a deletion the
\* cluster had notified earlier
NotStayedOrEndedBefore(i) ==
    /\ i \in Monitors
    /\ \/ hostState[monitors[i].bmh] # "provisioned"
       \/ monitors[i].exit \in {"read-api-error", "read-error", "watch-error", "failed", "deleted"}

\* C27: whenever the host is provisioned before the time bound of a waiting
\* monitor has passed, be it before the first read, between the first read
\* and the opening of the watch or during the watch, and stays so, the
\* monitor concludes success (unless a fault or an earlier failure ended it)
C27_ProvisionedInTimeIsSuccess ==
    \A i \in 1 .. MaxObserved :
        ProvisionedInTime(i) ~> (ConcludedSuccess(i) \/ NotStayedOrEndedBefore(i))

\* the host became provisioned between the first read and the opening of the
\* watch, and the monitor told the notifier of a success
C27_Witness ==
    \E i \in Monitors :
        /\ ConcludedSuccess(i)
        /\ monitors[i].first = "provisioning"
        /\ monitors[i].exit = "provisioned"
        /\ hostState[monitors[i].bmh] = "provisioned"

\* a provision with webhook_id and user_id, its patch accepted by the
\* cluster, takes the step that follows the patch
ProvisionAccepted ==
    /\ req.pc = "running"
    /\ req.entry = "service"
    /\ Truthy(req.input.image_url)
    /\ PatchAccepted(req.calls)
    /\ Truthy(req.input.webhook_id)
    /\ Truthy(req.input.user_id)
    /\ req' # req

\* the monitor of the request that is running
MonitorOfRequest ==
    NewMonitor(req.input.bmh_name, req.input.webhook_id, req.input.user_id,
               req.input.event_id, req.input.timeout)

\* all monitors started watch the same host
SameHost == \A i \in Monitors : monitors[i].bmh = monitors[1].bmh

\* C28: every accepted provision with correlation fields starts a monitor of
\* its own, whatever monitors are running for the same host; each of two
\* monitors of one host reaches the end of its wait and calls the notifier
\* once, so two provisions of a host give two notifications
C28_OneMonitorPerProvision ==
    /\ [][ProvisionAccepted => monitors' = Append(monitors, MonitorOfRequest)]_vars
    /\ [](SameHost /\ NotifiedOnce)
    /\ []<>(\A i \in Monitors : Finished(i))

C28_Witness ==
    /\ Len(monitors) = 2
    /\ monitors[1].bmh = monitors[2].bmh
    /\ \A i \in Monitors :
          /\ monitors[i].pc = "done"
          /\ monitors[i].exit \in {"provisioned", "timeout"}
          /\ Len(monitors[i].notes) = 1

\* the host and the correlation fields a monitor was started with
Identity(m) == <<m.bmh, m.webhook_id, m.user_id, m.event_id>>

\* the host and the correlation fields a notifier call carries
IdentityOfCall(note) ==
    <<note.resource_name, note.webhook_id, note.user_id, note.event_id>>

\* C29: with monitors running side by side, a monitor starts with the host
\* and the webhookId, userId, eventId of the request that started it and
\* keeps them; its notifier call carries them, with the success flag of its
\* own wait, which answers success only on what this monitor read or was
\* notified of; and a step of one monitor's thread leaves every other monitor
\* as it was
C29_MonitorsIndependent ==
    [][/\ ProvisionAccepted =>
             /\ Len(monitors') = Len(monitors) + 1
             /\ Identity(monitors'[Len(monitors')]) =
                   <<req.input.bmh_name, req.input.webhook_id,
                     req.input.user_id, req.input.event_id>>
       /\ \A i \in Monitors :
             LET m == monitors[i]
                 n == monitors'[i]
             IN /\ Identity(n) = Identity(m)
                /\ n.notes # m.notes =>
                      /\ m.pc \in {"notify", "log"} /\ Len(n.notes) = 1
                      /\ IdentityOfCall(n.notes[1]) = Identity(m)
                      /\ n.notes[1].success = WaitResult(m.exit)
                /\ (n.exit # m.exit /\ WaitResult(n.exit)) =>
                      \/ m.pc = "read" /\ n.first = "provisioned"
                      \/ /\ m.pc = "watch" /\ m.queue # <<>>
                         /\ Head(m.queue).state = "provisioned"
                /\ n.pc # m.pc =>
                      \A j \in Monitors \ {i} : monitors'[j] = monitors[j]]_vars

C29_Witness ==
    /\ Len(monitors) = 2
    /\ \A i \in Monitors : monitors[i].pc = "done" /\ Len(monitors[i].notes) = 1
    /\ monitors[1].bmh = monitors[2].bmh
    /\ IdentityOfCall(monitors[1].notes[1]) = <<"bmh1", "w1", "u1", "e1">>
    /\ IdentityOfCall(monitors[2].notes[1]) = <<"bmh1", "w2", "u2", "e2">>
    /\ ~monitors[1].notes[1].success
    /\ monitors[2].notes[1].success

\* the cloud-init document of a stored secret is the template but for the
\* keys of the login user
TemplateButKeys(secret) ==
    LET doc == secret.data.userData[2].yaml
        p == FirstPrognose(doc.users)
    IN /\ secret.data.userData[2].header = "#cloud-config"
       /\ doc.ssh_pwauth = CLOUD_CONFIG_TEMPLATE.ssh_pwauth
       /\ doc.groups = CLOUD_CONFIG_TEMPLATE.groups
       /\ Len(doc.users) = Len(CLOUD_CONFIG_TEMPLATE.users)
       /\ p = FirstPrognose(CLOUD_CONFIG_TEMPLATE.users)
       /\ \A i \in DOMAIN doc.users :
             IF i = p
             THEN [doc.users[i] EXCEPT !.ssh_authorized_keys = <<>>]
                     = CLOUD_CONFIG_TEMPLATE.users[i]
             ELSE doc.users[i] = CLOUD_CONFIG_TEMPLATE.users[i]

\* the key list of a request: the sshKeys of an intent, the one key of a call
\* of the service layer
KeyList(input) ==
    IF input.shape = "WebhookPayload" THEN input.ssh_keys ELSE <<input.ssh_key>>

\* the request's write of the secret succeeded: its last secret call was served
SecretWritten(calls) ==
    /\ SecretWrites(calls) # {}
    /\ \E i \in SecretWrites(calls) :
          /\ \A j \in SecretWrites(calls) : j <= i
          /\ calls[i].outcome = Served

----------------------------------------------------------------------------
(* Properties of the answers, the audit records and the template *)

\* the calls hold a patch of the host that the cluster accepted and that is
\* the patch of the intent: an image for a provision, no image and no user
\* data for a deprovision
IntentPatchAccepted(calls, class, bmh_name) ==
    \E i \in HostPatches(calls) :
        /\ calls[i].outcome = Served
        /\ calls[i].name = bmh_name
        /\ class = "Provision" => calls[i].body.spec.image # Null
        /\ class = "Deprovision" =>
              /\ calls[i].body.spec.image = Null
              /\ calls[i].body.spec.userData = Null

\* C31: a success response to a start or end event on a Server, or to the
\* deletion of an active reservation, is given only when the handler answered
\* True and the provision or deprovision patch of the intent was submitted
\* and accepted in that request
C31_SuccessImpliesAcceptedPatch ==
    (/\ Done
     /\ req.entry = "webhook"
     /\ req.class \in {"Provision", "Deprovision"}
     /\ req.response.status = "success")
    => /\ req.ok
       /\ IntentPatchAccepted(req.calls, req.class, TargetOf(req.input))

C31_Witness ==
    /\ Done
    /\ req.entry = "webhook"
    /\ IsEventWebhookPayload(req.input)
    /\ req.class = "Deprovision"
    /\ req.response = Response(200, "success")
    /\ IntentPatchAccepted(req.calls, "Deprovision", "bmh1")
    /\ hostSpec["bmh1"] = NoSpec

\* C32: handle_deprovision_event answers True exactly when the deprovision
\* patch was accepted; an audit log that answers False or raises after an
\* accepted patch does not make the answer False
C32_DeprovisionResultIsPatchResult ==
    (DeprovisionIntent /\ req.entry = "webhook") =>
        /\ req.ok <=> PatchAccepted(req.calls)
        /\ (PatchAccepted(req.calls) /\ req.audits # <<>>) =>
              req.response.status = "success"

\* thread g is inside _generate_cloud_config
Generating(g) == FrameAddr(g) \in DOMAIN template

\* C34: the objects of the module-level template are as the module made them
\* in every state, whatever generations have run or are running side by side:
\* its login user has an empty list of authorized keys; every document a
\* generation returns holds the key of its own call alone, and every stored
\* secret is the template with the key of its own host and no key of another
C34_TemplateNeverModified ==
    /\ \A a \in DOMAIN TemplateObjects : template[a] = TemplateObjects[a]
    /\ ConfigValue(template, TemplateAddr) = CLOUD_CONFIG_TEMPLATE
    /\ LET users == ConfigValue(template, TemplateAddr).users
       IN users[FirstPrognose(users)].ssh_authorized_keys = <<>>
    /\ \A g \in Generators :
          (Generating(g) /\ template[FrameAddr(g)].pc = "return") =>
             LET users == template[FrameAddr(g)].result[1].yaml.users
             IN users[FirstPrognose(users)].ssh_authorized_keys
                   = <<template[FrameAddr(g)].ssh_key>>
    /\ \A h \in Hosts :
          secrets[SecretName(h)] # Null =>
             /\ AuthorizedKeys(secrets[SecretName(h)][1]) = <<HostKey[h]>>
             /\ TemplateButKeys(secrets[SecretName(h)][1])

\* two generations run side by side for two hosts whose secrets exist: the
\* first has dumped its document, the second has bound its key and has yet to
\* dump
C34_Witness ==
    /\ Generating("g1")
    /\ Generating("g2")
    /\ template[FrameAddr("g1")].bmh_name = "bmh1"
    /\ template[FrameAddr("g2")].bmh_name = "bmh2"
    /\ template[FrameAddr("g1")].pc = "return"
    /\ template[FrameAddr("g2")].pc = "dump"
    /\ template[KeysAddr("g2")] = <<"k2">>
    /\ secrets[SecretName("bmh1")] # Null
    /\ secrets[SecretName("bmh2")] # Null

\* C35: a reservation-deleted event whose three timestamps are well-formed,
\* with or without the trailing "Z" in any mix and with any number of
\* fractional digits, is classified as Deprovision or No-Op and never ends in
\* an unhandled fault
C35_WellFormedDeletedNeverFaults ==
    DeletedEvent =>
        /\ req.class \in {"Deprovision", "NoOp"}
        /\ req.response.status \notin {"ValueError", "TypeError"}

====
